---- MODULE Spec2Model ----
(***************************************************************************)
(* Verification model of the Constellation1 RESO MCP server.               *)
(*                                                                         *)
(* SpecAuth   : the OAuth2 credential manager (auth.OAuthClient) driven by *)
(*              several concurrent GetToken callers.                       *)
(* Spec       : the server's message loop (main, MCPServer.HandleMessage   *)
(*              and its handlers), one line of input at a time.            *)
(* SpecConfig : the same loop fed initialize requests only, over every     *)
(*              combination of configuration sources.                     *)
(* SpecExpiry : the credential manager over an hour, with tokens that live *)
(*              one hour.                                                  *)
(* SpecQuery  : the same loop fed reso_query calls, over the values of     *)
(*              each argument of a query.                                  *)
(***************************************************************************)
EXTENDS Integers, Sequences, FiniteSets, TLC

(***************************************************************************)
(* Bounds of the model.                                                    *)
(***************************************************************************)
NumCallers == 2
MaxNow == 1
MaxLife == 1
MaxTokens == 2
MaxId == 1
MaxLen == 3
MaxBig == 2

(***************************************************************************)
(* Program constants.                                                      *)
(***************************************************************************)
TokenBuffer == 60

Callers == 1..NumCallers

\* expires_in values the auth endpoint may answer with: 0 is what the decoder
\* leaves when the field is omitted, the others straddle the safety buffer.
ExpiresInValues == {0} \cup (TokenBuffer..(TokenBuffer + MaxLife))

\* The ways one auth exchange can end (refreshToken's return paths after Do).
AuthOutcomes == {"senderr", "readerr", "status", "parseerr", "ok"}

\* access_token values the auth endpoint may answer with.
AccessTokens == 1..MaxTokens

VARIABLES
    \* auth.OAuthClient
    token,          \* c.token (NilToken when the pointer is nil)
    tokenExpiry,    \* c.tokenExpiry
    readers,        \* c.mutex: callers holding the shared lock
    writer,         \* c.mutex: caller holding the exclusive lock, 0 if none
    authURLOk,      \* whether c.authURL is a URL http.NewRequest accepts
    \* environment
    now,            \* time.Now(), in seconds
    \* GetToken callers
    pc,             \* position of each caller inside GetToken/refreshToken
    result,         \* what the caller's latest GetToken call returned
    tokenResp,      \* refreshToken's local tokenResp
    seen,           \* history: what the caller's latest validity check looked at
    lastOutcome,    \* history: how a refresh attempt ended in the step just taken, if one did
    exch,           \* history: auth exchanges performed by the caller's latest call
    missed0,        \* history: callers whose optimistic check missed before any refresh began
                    \* (emptied when one of them calls again)
    refreshBegun,   \* history: some refreshToken call has got past its double check
    first,          \* history: how the first refresh attempt ended
    obtained,       \* history: when refreshToken stored the expiry of the cached token
    \* process environment
    env,            \* command-line flags and environment variables at start-up
    cacheFile,      \* /tmp/constellation1_metadata.xml: "absent", "bad" or "good"
    \* main.MCPServer
    pendingSettings,\* s.pendingSettings
    config,         \* s.config
    oauth,          \* the OAuthClient built by the latest Initialize
    apiClient,      \* s.apiClient
    resoTool,       \* s.resoTool: "nil" or "set"
    helpTool,       \* s.helpTool: "nil", "fallback" (no metadata) or "metadata"
    \* main's loop
    line,           \* the line scanned from stdin and not handled yet
    out,            \* what handling the latest line wrote to stdout
    http,           \* history: HTTP exchanges made while handling the latest line
    initHandled     \* history: an initialize request has been handled

authVars == <<token, tokenExpiry, readers, writer, authURLOk, now,
              pc, result, tokenResp, seen, lastOutcome, exch, missed0, refreshBegun, first,
              obtained>>

serverVars == <<env, cacheFile, pendingSettings, config, oauth, apiClient,
                resoTool, helpTool, line, out, http, initHandled>>

\* What the message loop never touches: the state of concurrent callers.
callerVars == <<readers, writer, pc, result, tokenResp, seen, lastOutcome,
                exch, missed0, refreshBegun, first, obtained>>

vars == <<authVars, serverVars>>

NilToken == [isNil |-> TRUE, AccessToken |-> 0, ExpiresIn |-> 0]
ZeroTime == 0 - 1

NoResult == [kind |-> "none", token |-> 0, err |-> ""]
OkResult(t) == [kind |-> "ok", token |-> t, err |-> ""]
ErrResult(e) == [kind |-> "err", token |-> 0, err |-> e]

NoSeen == [valid |-> FALSE, tok |-> 0]
NoFirst == [kind |-> "none", exp |-> 0]

\* history: the end of a refresh attempt, recorded for the first one only.
FirstEnd(kind, exp) == IF first.kind = "none" THEN [kind |-> kind, exp |-> exp] ELSE first

\* history: the first batch of callers is over, its record is dropped.
BatchGone == [kind |-> "gone", exp |-> 0]

(***************************************************************************)
(* Values of the message loop: JSON values, settings maps, the process     *)
(* environment, responses.                                                 *)
(***************************************************************************)

\* A JSON value under a key: the key is missing, holds a string, or holds
\* anything else (a number, a boolean, null, an array, an object).
Absent == [t |-> "absent", s |-> ""]
Str(v) == [t |-> "string", s |-> v]
NonStr == [t |-> "other", s |-> ""]

Keys == {"client_id", "client_secret"}

\* A map[string]interface{} restricted to the two keys the server looks at.
NoKeys == [k \in Keys |-> Absent]
NilMap == [isNil |-> TRUE, kv |-> NoKeys]

\* The places main reads a credential from, in the order main reads them:
\* the flag (-client-id / -client-secret), CLIENT_ID / CLIENT_SECRET,
\* RESO_CLIENT_ID / RESO_CLIENT_SECRET, MCP_RESO_CLIENT_ID / MCP_RESO_CLIENT_SECRET.
EnvSources == {"flag", "CLIENT", "RESO", "MCP_RESO"}

\* The value a place holds for a key when it is set: one per place and key.
ValueAt(src, k) == src \o ":" \o k

NoCreds == [src \in EnvSources |-> [k \in Keys |-> ""]]
NoEnv == [cred |-> NoCreds, RESO_AUTH_URL |-> "", RESO_BASE_URL |-> ""]

DefaultAuthURL == "https://authenticate.constellation1apis.com/oauth2/token"
DefaultBaseURL == "https://listings.cdatalabs.com/odata"
AltAuthURL == "https://auth.example/token"
AltBaseURL == "https://data.example/odata"
\* A string http.NewRequest rejects.
BadURL == "%zz"

\* http.NewRequest accepts the URL.
UrlOk(u) == u # BadURL

\* config.DefaultConfig
DefaultConfig ==
    [ClientID |-> "", ClientSecret |-> "",
     AuthURL |-> DefaultAuthURL, BaseURL |-> DefaultBaseURL]

NilOAuth == [isNil |-> TRUE, clientID |-> "", clientSecret |-> "", authURL |-> ""]
NilClient == [isNil |-> TRUE, baseURL |-> ""]

\* An integer of up to 64 bits (a Go int, a number in a line of input), written [hi, lo] for hi * 2^53 + lo: hi is 0 for the
\* values the model computes with, 1 for the values next above 2^53, where
\* a float64 no longer holds every integer.
Int64(hi, lo) == [hi |-> hi, lo |-> lo]
Small(n) == Int64(0, n)
Zero == Small(0)

\* The id of a message: none (msg.ID is nil), or an integer from 1 on.
NoId == Zero
Ids == {Small(i) : i \in 1..MaxId}

NoLine ==
    [kind |-> "none", method |-> "", id |-> NoId, params |-> [shape |-> "none"],
     long |-> FALSE]

\* The line l has been handled; the loop has not gone back to the scanner
\* yet.
Handled(l) == [l EXCEPT !.kind = "handled"]

\* The same for a line the loop skipped, with the kind of line it was.
Skipped(kind) ==
    [kind |-> "handled", method |-> "", id |-> NoId, params |-> [shape |-> kind],
     long |-> FALSE]

\* scanner.Scan() returned false and main left its loop, with the kind of
\* line that was next on stdin.
Stopped(kind) ==
    [kind |-> "stopped", method |-> "", id |-> NoId, params |-> [shape |-> kind],
     long |-> FALSE]

\* MCPMessage{}: the zero message, which main does not write.
EmptyMessage ==
    [JSONRPC |-> "", id |-> NoId, kind |-> "none", code |-> 0,
     tag |-> "", isError |-> FALSE, detail |-> ""]

ResultMessage(id, tag) ==
    [JSONRPC |-> "2.0", id |-> id, kind |-> "result", code |-> 0,
     tag |-> tag, isError |-> FALSE, detail |-> ""]

ErrorMessage(id, code, tag) ==
    [JSONRPC |-> "2.0", id |-> id, kind |-> "error", code |-> code,
     tag |-> tag, isError |-> FALSE, detail |-> ""]

\* A response carrying an MCPToolResult.
ToolMessage(id, r) ==
    [JSONRPC |-> "2.0", id |-> id, kind |-> "result", code |-> 0,
     tag |-> r.tag, isError |-> r.isError, detail |-> r.detail]

ToolResult(tag, isError, detail) == [tag |-> tag, isError |-> isError, detail |-> detail]

NoOut == [written |-> FALSE, msg |-> EmptyMessage]
\* url.Values{}: no query parameter.
NoValues == [k \in {} |-> ""]

\* How a GET sent to the data endpoint ends: the request fails ("senderr"),
\* or an answer arrives whose body cannot be read to its end ("readerr") or
\* can ("answered"). An answer has a status, a Content-Encoding header and
\* a body, which is a payload sent as it is ("") or compressed in one of the
\* encodings of AcceptEncoding.
Answer(fate, status, header, coded, payload) ==
    [fate |-> fate, StatusCode |-> status, ContentEncoding |-> header,
     coded |-> coded, payload |-> payload]

\* req.Header.Set("Accept-Encoding", "gzip, deflate, br")
AcceptEncoding == {"gzip", "deflate", "br"}

\* No GET was sent.
NoAnswer == Answer("none", 0, "", "", "")

\* The GET requests sent to the data endpoint: none yet.
NoRequest == [entity |-> "", query |-> NoValues]

NoHttp == [auth |-> 0, api |-> 0, request |-> NoRequest, answer |-> NoAnswer]

(***************************************************************************)
(* Configuration: main's start-up, handleInitialize's merge, package       *)
(* config.                                                                 *)
(***************************************************************************)

\* mutant: the RESO_ variable is read before the generic one.
EnvSettingsValueResoFirst(e, k) ==
    IF e.cred["flag"][k] # "" THEN e.cred["flag"][k]
    ELSE IF e.cred["RESO"][k] # "" THEN e.cred["RESO"][k]
    ELSE IF e.cred["CLIENT"][k] # "" THEN e.cred["CLIENT"][k]
    ELSE e.cred["MCP_RESO"][k]

\* main: envSettings[k] after the four numbered blocks, "" when no block set
\* it; each block sets the key only when its value is non-empty and the key
\* is still unset.
EnvSettingsValue(e, k) ==
    IF e.cred["flag"][k] # "" THEN e.cred["flag"][k]
    ELSE IF e.cred["CLIENT"][k] # "" THEN e.cred["CLIENT"][k]
    ELSE IF e.cred["RESO"][k] # "" THEN e.cred["RESO"][k]
    ELSE e.cred["MCP_RESO"][k]

\* main: server.pendingSettings, left nil when envSettings is empty.
PendingSettings(e) ==
    LET kv == [k \in Keys |->
                 IF EnvSettingsValue(e, k) = "" THEN Absent
                 ELSE Str(EnvSettingsValue(e, k))]
    IN  IF \A k \in Keys : kv[k] = Absent THEN NilMap
        ELSE [isNil |-> FALSE, kv |-> kv]

\* for k, v := range over { settings[k] = v }, settings made first when nil.
Overlay(settings, over) ==
    [isNil |-> FALSE,
     kv |-> [k \in Keys |-> IF over[k] # Absent THEN over[k] ELSE settings.kv[k]]]

\* mutant: the shapes are applied in the opposite order.
MergedSettingsCapabilitiesLast(pending, p) ==
    LET s0 == pending
        s1 == IF p.shape = "map" THEN Overlay(s0, p.bare) ELSE s0
        s2 == IF p.shape = "map" /\ ~p.direct.isNil THEN Overlay(s1, p.direct.kv) ELSE s1
    IN  IF p.shape = "map" /\ ~p.cap.isNil THEN Overlay(s2, p.cap.kv) ELSE s2

\* handleInitialize: the settings handed to Initialize. p is the request's
\* params: its shape ("none", "other" for a non-object, "map"), the settings
\* object under capabilities (Method 1), the settings object of the params
\* (Method 2) and the params' own client_id / client_secret (Method 3).
MergedSettings(pending, p) ==
    LET s0 == pending
        s1 == IF p.shape = "map" /\ ~p.cap.isNil THEN Overlay(s0, p.cap.kv) ELSE s0
        s2 == IF p.shape = "map" /\ ~p.direct.isNil THEN Overlay(s1, p.direct.kv) ELSE s1
    IN  IF p.shape = "map" THEN Overlay(s2, p.bare) ELSE s2

\* v, ok := settings[k].(string); ok && v != ""
NonEmptyString(v) == v.t = "string" /\ v.s # ""

\* Config.LoadFromMCPSettings: the error and the configuration it leaves.
LoadFromMCPSettings(c, settings) ==
    IF settings.isNil THEN [err |-> TRUE, config |-> c]
    ELSE [err |-> FALSE,
          config |-> [c EXCEPT
              !.ClientID = IF NonEmptyString(settings.kv["client_id"])
                              THEN settings.kv["client_id"].s ELSE @,
              !.ClientSecret = IF NonEmptyString(settings.kv["client_secret"])
                                  THEN settings.kv["client_secret"].s ELSE @]]

\* Config.LoadFromEnv
LoadFromEnv(c, e) ==
    [c EXCEPT
        !.ClientID = IF e.cred["RESO"]["client_id"] # ""
                        THEN e.cred["RESO"]["client_id"] ELSE @,
        !.ClientSecret = IF e.cred["RESO"]["client_secret"] # ""
                            THEN e.cred["RESO"]["client_secret"] ELSE @,
        !.AuthURL = IF e.RESO_AUTH_URL # "" THEN e.RESO_AUTH_URL ELSE @,
        !.BaseURL = IF e.RESO_BASE_URL # "" THEN e.RESO_BASE_URL ELSE @]

\* mutant: only the client id is looked at.
ValidateCredentialsIdOnly(c) == c.ClientID # ""

\* Config.ValidateCredentials returns nil.
ValidateCredentials(c) == c.ClientID # "" /\ c.ClientSecret # ""

\* MCPServer.Initialize, the configuration it ends with: LoadFromMCPSettings,
\* and LoadFromEnv when that returned an error.
InitializeConfig(c, settings, e) ==
    LET loaded == LoadFromMCPSettings(c, settings)
    IN  IF loaded.err THEN LoadFromEnv(loaded.config, e) ELSE loaded.config

\* mutant: Initialize refuses a configuration without credentials.
InitializeFailsNoCreds(c) == c.ClientID = "" \/ c.ClientSecret = ""

\* MCPServer.Initialize returns a non-nil error: on no path.
InitializeFails(c) == FALSE

\* auth.NewOAuthClient
NewOAuthClient(clientID, clientSecret, authURL) ==
    [isNil |-> FALSE, clientID |-> clientID, clientSecret |-> clientSecret,
     authURL |-> authURL]

\* api.NewClient
NewClient(baseURL) == [isNil |-> FALSE, baseURL |-> baseURL]

\* main before its loop: NewMCPServer and the pending settings, in a process
\* started with environment e and metadata cache file cf.
InitServer(e, cf) ==
    /\ env = e
    /\ cacheFile = cf
    /\ pendingSettings = PendingSettings(e)
    /\ config = DefaultConfig
    /\ oauth = NilOAuth
    /\ apiClient = NilClient
    /\ resoTool = "nil"
    /\ helpTool = "nil"
    /\ line = NoLine
    /\ out = NoOut
    /\ http = NoHttp
    /\ initHandled = FALSE

(***************************************************************************)
(* auth.OAuthClient                                                        *)
(***************************************************************************)

\* mutant: the comparison is off by one second, a token is dropped early.
CacheValidEarly(tok, exp, t) == ~tok.isNil /\ t + 1 < exp

\* mutant: the expiry is not looked at, a cached token is served forever.
CacheValidForever(tok, exp, t) == ~tok.isNil

\* mutant: a token is still served at the instant of its expiry.
CacheValidAtExpiry(tok, exp, t) == ~tok.isNil /\ t <= exp

\* GetToken: c.token != nil && time.Now().Before(c.tokenExpiry)
CacheValid(tok, exp, t) == ~tok.isNil /\ t < exp

\* mutant: refreshToken without the second check.
DoubleCheckMissing(tok, exp, t) == FALSE

\* refreshToken's double check, made under the exclusive lock.
DoubleCheck(tok, exp, t) == ~tok.isNil /\ t < exp

\* mutant: the exclusive lock does not exclude another writer.
CanLockShared(rs, w) == rs = {}

\* sync.RWMutex.Lock: no reader and no writer holds the mutex.
CanLock(rs, w) == rs = {} /\ w = 0

\* mutant: the shared lock is granted while the exclusive lock is held.
CanRLockWhileWriting(w, waiting) == waiting = {}

\* sync.RWMutex.RLock: no writer holds the mutex and none is waiting for it.
CanRLock(w, waiting) == w = 0 /\ waiting = {}

\* mutant: the status code is not checked, an error body is decoded and stored.
RefreshFailsNoStatus(kind) == kind \notin {"ok", "status"}

\* The outcomes on which refreshToken returns an error before the store.
RefreshFails(kind) == kind # "ok"

\* mutant: the expiry is stored without the safety buffer.
ExpiryForNoBuffer(t, expiresIn) == t + expiresIn

\* time.Now().Add(time.Duration(tokenResp.ExpiresIn-60) * time.Second)
ExpiryFor(t, expiresIn) == t + (expiresIn - TokenBuffer)

\* history: the cache as a validity check looks at it.
Look == [valid |-> (~token.isNil /\ now < tokenExpiry), tok |-> token.AccessToken]

\* GetToken: c.mutex.RLock() and the optimistic check under the shared lock.
Check(p) ==
    /\ UNCHANGED serverVars
    /\ lastOutcome' = "none"
    /\ pc[p] = "idle"
    /\ CanRLock(writer, {q \in Callers : pc[q] = "wlock"})
    /\ readers' = readers \cup {p}
    /\ result' = [result EXCEPT ![p] = NoResult]
    /\ exch' = [exch EXCEPT ![p] = 0]
    /\ seen' = [seen EXCEPT ![p] = Look]
    /\ IF CacheValid(token, tokenExpiry, now)
          THEN /\ pc' = [pc EXCEPT ![p] = "read"]
               /\ missed0' = IF p \in missed0 THEN {} ELSE missed0
          ELSE /\ pc' = [pc EXCEPT ![p] = "miss"]
               /\ missed0' = IF p \in missed0 THEN {}
                              ELSE IF refreshBegun THEN missed0 ELSE missed0 \cup {p}
    /\ first' = IF p \in missed0 THEN BatchGone ELSE first
    /\ UNCHANGED <<token, tokenExpiry, writer, authURLOk, now, tokenResp, refreshBegun,
                   obtained>>

\* GetToken: on a miss, c.mutex.RUnlock() and refreshToken is called, which
\* asks for the exclusive lock.
Miss(p) ==
    /\ UNCHANGED serverVars
    /\ lastOutcome' = "none"
    /\ pc[p] = "miss"
    /\ readers' = readers \ {p}
    /\ seen' = [seen EXCEPT ![p] = NoSeen]
    /\ pc' = [pc EXCEPT ![p] = "wlock"]
    /\ UNCHANGED <<token, tokenExpiry, writer, authURLOk, now,
                   result, tokenResp, exch, missed0, refreshBegun, first, obtained>>

\* GetToken: token := c.token.AccessToken; c.mutex.RUnlock(); return token, nil
Read(p) ==
    /\ UNCHANGED serverVars
    /\ lastOutcome' = "none"
    /\ pc[p] = "read"
    /\ result' = [result EXCEPT ![p] = OkResult(token.AccessToken)]
    /\ readers' = readers \ {p}
    /\ seen' = [seen EXCEPT ![p] = NoSeen]
    /\ pc' = [pc EXCEPT ![p] = "idle"]
    /\ UNCHANGED <<token, tokenExpiry, writer, authURLOk, now,
                   tokenResp, exch, missed0, refreshBegun, first, obtained>>

\* refreshToken: c.mutex.Lock(), the double check, then the request is built
\* and sent (httpClient.Do); the deferred Unlock runs on every return.
Refresh(p) ==
    /\ UNCHANGED serverVars
    /\ pc[p] = "wlock"
    /\ CanLock(readers, writer)
    /\ IF DoubleCheck(token, tokenExpiry, now)
          THEN /\ result' = [result EXCEPT ![p] = OkResult(token.AccessToken)]
               /\ pc' = [pc EXCEPT ![p] = "idle"]
               /\ lastOutcome' = "none"
               /\ UNCHANGED <<writer, exch, refreshBegun, first>>
          ELSE IF ~authURLOk
          THEN /\ result' = [result EXCEPT ![p] = ErrResult("reqerr")]
               /\ lastOutcome' = "reqerr"
               /\ first' = FirstEnd("fail", 0)
               /\ pc' = [pc EXCEPT ![p] = "idle"]
               /\ refreshBegun' = TRUE
               /\ UNCHANGED <<writer, exch>>
          ELSE /\ writer' = p
               /\ exch' = [exch EXCEPT ![p] = @ + 1]
               /\ pc' = [pc EXCEPT ![p] = "http"]
               /\ refreshBegun' = TRUE
               /\ lastOutcome' = "none"
               /\ UNCHANGED <<result, first>>
    /\ UNCHANGED <<token, tokenExpiry, readers, authURLOk, now, tokenResp, seen, missed0,
                   obtained>>

Min(S) == CHOOSE x \in S : \A y \in S : x <= y

\* mutant: a return on a failed exchange leaves the exclusive lock held.
RespondFromKeepsLock(p, E) ==
    /\ UNCHANGED serverVars
    /\ pc[p] = "http"
    /\ \E kind \in AuthOutcomes, tok \in AccessTokens, e \in E :
          /\ kind = "ok" \/ (tok = 1 /\ e = Min(E))
          /\ lastOutcome' = kind
          /\ IF RefreshFails(kind)
                THEN /\ result' = [result EXCEPT ![p] = ErrResult(kind)]
                     /\ pc' = [pc EXCEPT ![p] = "idle"]
                     /\ first' = FirstEnd("fail", 0)
                     /\ UNCHANGED <<tokenResp, writer>>
                ELSE /\ tokenResp' = [tokenResp EXCEPT ![p] =
                            [isNil |-> FALSE, AccessToken |-> tok, ExpiresIn |-> e]]
                     /\ pc' = [pc EXCEPT ![p] = "store"]
                     /\ UNCHANGED <<result, writer, first>>
    /\ UNCHANGED <<token, tokenExpiry, readers, authURLOk, now,
                   seen, exch, missed0, refreshBegun, obtained>>

\* refreshToken: the exchange ends, an answer that is decoded giving an
\* expires_in of E; every failure returns before the store.
RespondFrom(p, E) ==
    /\ UNCHANGED serverVars
    /\ pc[p] = "http"
    /\ \E kind \in AuthOutcomes, tok \in AccessTokens, e \in E :
          /\ kind = "ok" \/ (tok = 1 /\ e = Min(E))
          /\ lastOutcome' = kind
          /\ IF RefreshFails(kind)
                THEN /\ result' = [result EXCEPT ![p] = ErrResult(kind)]
                     /\ writer' = 0
                     /\ pc' = [pc EXCEPT ![p] = "idle"]
                     /\ first' = FirstEnd("fail", 0)
                     /\ UNCHANGED tokenResp
                ELSE /\ tokenResp' = [tokenResp EXCEPT ![p] =
                            [isNil |-> FALSE, AccessToken |-> tok, ExpiresIn |-> e]]
                     /\ pc' = [pc EXCEPT ![p] = "store"]
                     /\ UNCHANGED <<result, writer, first>>
    /\ UNCHANGED <<token, tokenExpiry, readers, authURLOk, now,
                   seen, exch, missed0, refreshBegun, obtained>>

Respond(p) == RespondFrom(p, ExpiresInValues)

\* refreshToken: c.token = &tokenResp
StoreToken(p) ==
    /\ UNCHANGED serverVars
    /\ lastOutcome' = "none"
    /\ pc[p] = "store"
    /\ token' = tokenResp[p]
    /\ pc' = [pc EXCEPT ![p] = "store2"]
    /\ UNCHANGED <<tokenExpiry, readers, writer, authURLOk, now,
                   result, tokenResp, seen, exch, missed0, refreshBegun, first, obtained>>

\* refreshToken: c.tokenExpiry = ...; return tokenResp.AccessToken, nil
StoreExpiry(p) ==
    /\ UNCHANGED serverVars
    /\ lastOutcome' = "none"
    /\ pc[p] = "store2"
    /\ tokenExpiry' = ExpiryFor(now, tokenResp[p].ExpiresIn)
    /\ result' = [result EXCEPT ![p] = OkResult(tokenResp[p].AccessToken)]
    /\ tokenResp' = [tokenResp EXCEPT ![p] = NilToken]
    /\ first' = FirstEnd("ok", tokenExpiry')
    /\ obtained' = now
    /\ writer' = 0
    /\ pc' = [pc EXCEPT ![p] = "idle"]
    /\ UNCHANGED <<token, readers, authURLOk, now,
                   seen, exch, missed0, refreshBegun>>

\* Time passes.
Tick ==
    /\ UNCHANGED serverVars
    /\ lastOutcome' = "none"
    /\ now < MaxNow
    /\ now' = now + 1
    /\ UNCHANGED <<token, tokenExpiry, readers, writer, authURLOk,
                   pc, result, tokenResp, seen, exch, missed0, refreshBegun, first, obtained>>

InitAuth ==
    /\ token = NilToken
    /\ tokenExpiry = ZeroTime
    /\ readers = {}
    /\ writer = 0
    /\ authURLOk \in BOOLEAN
    /\ now = 0
    /\ pc = [p \in Callers |-> "idle"]
    /\ result = [p \in Callers |-> NoResult]
    /\ tokenResp = [p \in Callers |-> NilToken]
    /\ seen = [p \in Callers |-> NoSeen]
    /\ lastOutcome = "none"
    /\ exch = [p \in Callers |-> 0]
    /\ missed0 = {}
    /\ refreshBegun = FALSE
    /\ first = NoFirst
    /\ obtained = ZeroTime
    /\ InitServer(NoEnv, "good")

NextAuth ==
    \/ \E p \in Callers : Check(p)
    \/ \E p \in Callers : Miss(p)
    \/ \E p \in Callers : Read(p)
    \/ \E p \in Callers : Refresh(p)
    \/ \E p \in Callers : Respond(p)
    \/ \E p \in Callers : StoreToken(p)
    \/ \E p \in Callers : StoreExpiry(p)
    \/ Tick

SpecAuth == InitAuth /\ [][NextAuth]_vars

\* An expires_in of one hour, what the auth endpoint answers with in
\* SpecExpiry.
LongExpiresIn == {3600}

\* A call that has begun goes on: a goroutine that can take its next step
\* takes it, a caller waiting in Lock() gets the lock if it stays free, and
\* every exchange ends (the HTTP client has a timeout). Nothing obliges a
\* caller to call again.
FairAuth ==
    \A p \in Callers :
        /\ WF_vars(Miss(p))
        /\ WF_vars(Read(p))
        /\ WF_vars(Refresh(p))
        /\ WF_vars(RespondFrom(p, {0} \cup LongExpiresIn))
        /\ WF_vars(StoreToken(p))
        /\ WF_vars(StoreExpiry(p))

\* The callers alone, at one instant; the auth endpoint answers with no
\* expires_in or with one hour.
NextCalls ==
    \/ \E p \in Callers : Check(p)
    \/ \E p \in Callers : Miss(p)
    \/ \E p \in Callers : Read(p)
    \/ \E p \in Callers : Refresh(p)
    \/ \E p \in Callers : RespondFrom(p, {0} \cup LongExpiresIn)
    \/ \E p \in Callers : StoreToken(p)
    \/ \E p \in Callers : StoreExpiry(p)

SpecAuthFair == InitAuth /\ [][NextCalls]_vars /\ FairAuth

RespondLong(p) == RespondFrom(p, LongExpiresIn)

\* A long time passes: from an instant up to MaxNow the clock goes on by an
\* hour less the buffer and MaxLife seconds more, and from there by seconds
\* until MaxLife seconds past the latest expiry of a token stored by MaxNow.
Leap ==
    /\ UNCHANGED serverVars
    /\ lastOutcome' = "none"
    /\ \E h \in LongExpiresIn :
          \/ now <= MaxNow /\ now' = now + (h - TokenBuffer - MaxLife)
          \/ /\ now > MaxNow
             /\ now < MaxNow + (h - TokenBuffer) + MaxLife
             /\ now' = now + 1
    /\ UNCHANGED <<token, tokenExpiry, readers, writer, authURLOk,
                   pc, result, tokenResp, seen, exch, missed0, refreshBegun, first, obtained>>

NextExpiry ==
    \/ \E p \in Callers : Check(p)
    \/ \E p \in Callers : Miss(p)
    \/ \E p \in Callers : Read(p)
    \/ \E p \in Callers : Refresh(p)
    \/ \E p \in Callers : RespondLong(p)
    \/ \E p \in Callers : StoreToken(p)
    \/ \E p \in Callers : StoreExpiry(p)
    \/ Tick
    \/ Leap

SpecExpiry == InitAuth /\ [][NextExpiry]_vars

(***************************************************************************)
(* Claims about the credential manager, checked under SpecAuth.            *)
(***************************************************************************)

\* The claims' own reading of "a token is cached and its expiry has not passed".
Fresh == ~token.isNil /\ now < tokenExpiry

\* The callers of missed0 have all returned from the call that put them there.
BatchDone ==
    /\ Cardinality(missed0) >= 2
    /\ \A p \in missed0 : pc[p] = "idle"

\* Auth exchanges performed by the calls of a set of callers.
ExchangesBy(S) == Cardinality({p \in S : exch[p] > 0})

C2_OneExchangeInFlight == Cardinality({p \in Callers : pc[p] = "http"}) <= 1

C2_Witness == \E p, q \in Callers : pc[p] = "http" /\ pc[q] = "wlock"

\* C3: a validity check (the optimistic one or the double check) that finds a
\* token cached with the current time before the stored expiry makes GetToken
\* return that cached access token, with no auth exchange and with the cached
\* token and expiry left unchanged.
C3_CachedTokenServed ==
    [][\A p \in Callers :
          /\ (pc[p] \in {"idle", "wlock"} /\ pc'[p] # pc[p] /\ Fresh) =>
                /\ exch'[p] = 0
                /\ token' = token /\ tokenExpiry' = tokenExpiry
                /\ \/ pc'[p] = "read"
                   \/ pc'[p] = "idle" /\ result'[p] = OkResult(token.AccessToken)
          /\ pc[p] = "read" =>
                /\ token' = token /\ tokenExpiry' = tokenExpiry
                /\ pc'[p] # "read" =>
                      /\ pc'[p] = "idle"
                      /\ exch'[p] = 0
                      /\ result'[p] = OkResult(token.AccessToken)]_vars

C3_Witness ==
    \E p \in Callers :
        /\ pc[p] = "idle" /\ result[p].kind = "ok" /\ exch[p] = 0
        /\ result[p].token = token.AccessToken /\ Fresh

\* C4: a refresh that fails (request not built, not sent, non-success status,
\* body unreadable or unparsable) makes GetToken return an error and leaves
\* the cached token and expiry as they were.
C4_FailedRefreshKeepsCache ==
    [][\A p \in Callers :
          /\ (pc[p] = "wlock" /\ pc'[p] = "idle" /\ ~Fresh) =>
                /\ result'[p].kind = "err"
                /\ token' = token /\ tokenExpiry' = tokenExpiry
          /\ (pc[p] = "http" /\ pc'[p] # "http" /\ lastOutcome' # "ok") =>
                /\ pc'[p] = "idle"
                /\ result'[p].kind = "err"
                /\ token' = token /\ tokenExpiry' = tokenExpiry
          /\ (pc[p] = "http" /\ pc'[p] = "http") =>
                token' = token /\ tokenExpiry' = tokenExpiry]_vars

C4_Witness ==
    \E p \in Callers :
        /\ pc[p] = "idle" /\ result[p].kind = "err"
        /\ lastOutcome \in {"status", "parseerr"}
        /\ ~token.isNil

\* C5: a token returned without error was either cached and unexpired at the
\* moment of the check, or obtained by an exchange of that same call; a call
\* whose refresh fails returns an error, never the stale token.
C5_NoStaleToken ==
    [][\A p \in Callers :
          (pc[p] # "idle" /\ pc'[p] = "idle") =>
              /\ result'[p].kind \in {"ok", "err"}
              /\ result'[p].kind = "ok" =>
                    \/ /\ pc[p] = "read"
                       /\ seen[p].valid
                       /\ result'[p].token = seen[p].tok
                       /\ exch'[p] = 0
                    \/ /\ pc[p] = "wlock"
                       /\ Fresh
                       /\ result'[p].token = token.AccessToken
                       /\ exch'[p] = 0
                    \/ /\ pc[p] = "store2"
                       /\ result'[p].token = tokenResp[p].AccessToken
                       /\ exch'[p] = 1
              /\ pc[p] = "http" => result'[p].kind = "err"]_vars

C5_Witness ==
    \E p \in Callers :
        /\ pc[p] = "idle" /\ result[p].kind = "err" /\ exch[p] = 1
        /\ ~token.isNil /\ ~(now < tokenExpiry)

(***************************************************************************)
(* The tools and the API client, as the message loop runs them: one call   *)
(* at a time, from start to end.                                           *)
(***************************************************************************)

PropertySkipLimit == 1000000
OtherSkipLimit == 50000

\* api.GetSupportedEntities, the names.
SupportedEntities ==
    {"Property", "Member", "Office", "Media", "OpenHouse", "Dom",
     "PropertyUnitTypes", "PropertyRooms", "RawMlsProperty"}

\* mutant: the name is matched without regard to case.
IsValidEntityAnyCase(entity) == entity \in SupportedEntities \cup {"property"}

\* api.IsValidEntity
IsValidEntity(entity) == entity \in SupportedEntities

\* mutant: Member falls to the default limit.
GetEntitySkipLimitNoMember(entity) ==
    CASE entity = "Property" -> PropertySkipLimit
      [] entity \in {"Office", "OpenHouse"} -> 500000
      [] OTHER -> OtherSkipLimit

\* api.GetEntitySkipLimit
GetEntitySkipLimit(entity) ==
    CASE entity = "Property" -> PropertySkipLimit
      [] entity \in {"Office", "OpenHouse", "Member"} -> 500000
      [] OTHER -> OtherSkipLimit

\* mutant: zero passes the test.
NotNegative(n) == n.hi > 0 \/ n.lo >= 0

\* n > 0 and n > limit, for a limit below 2^53.
Positive(n) == n.hi > 0 \/ n.lo > 0

Exceeds(n, limit) == n.hi > 0 \/ n.lo > limit

\* strconv.Itoa
Itoa(n) == IF n.hi = 0 THEN ToString(n.lo) ELSE "2^53+" \o ToString(n.lo)

\* The characters of the text arguments, the white space among them, and
\* the texts of at most MaxLen characters.
Chars == {" ", "a"}
Space == {" "}
Texts == UNION {[1..n -> Chars] : n \in 0..MaxLen}

RECURSIVE TrimLeft(_)
TrimLeft(s) == IF s # <<>> /\ Head(s) \in Space THEN TrimLeft(Tail(s)) ELSE s

RECURSIVE TrimRight(_)
TrimRight(s) ==
    IF s # <<>> /\ s[Len(s)] \in Space THEN TrimRight(SubSeq(s, 1, Len(s) - 1)) ELSE s

\* strings.TrimSpace
TrimSpace(s) == TrimRight(TrimLeft(s))

\* The JSON value of a text argument (select, filter, orderby, expand):
\* missing, not a string, or a string.
NoText == [t |-> "absent", s |-> <<>>]
NotText == [t |-> "other", s |-> <<>>]
Text(s) == [t |-> "string", s |-> s]

\* The JSON value of top or skip: missing, a number literal, a string, or
\* anything else. A number literal of integer part n is written as an integer
\* (10), with a zero fraction (10.0) or with a fraction (10.5); a string
\* holds one of these, n with a plus sign (+10), n after a space, or a word.
NoNumber == [t |-> "absent", form |-> "", n |-> Zero]
NotNumber == [t |-> "other", form |-> "", n |-> Zero]
JSONNumber(form, n) == [t |-> "number", form |-> form, n |-> n]
JSONString(form, n) == [t |-> "string", form |-> form, n |-> n]

\* The JSON value of ignorenulls or ignorecase.
NoBool == [t |-> "absent", b |-> FALSE]
NotBool == [t |-> "other", b |-> FALSE]
Bool(b) == [t |-> "bool", b |-> b]

\* The float64 nearest to 2^53 + d, ties to the even mantissa: from 2^53 to
\* 2^54 a float64 holds the even integers only.
RoundEven(d, above) ==
    IF d % 2 = 0 THEN d
    ELSE IF above \/ ((d + 1) \div 2) % 2 = 0 THEN d + 1 ELSE d - 1

\* encoding/json decoding a number literal into interface{}: the float64
\* nearest to it, as an integer part and whether a fraction is left.
Float64(v) ==
    IF v.n.hi = 0 THEN [n |-> v.n, fraction |-> v.form = "fraction"]
    ELSE [n |-> Int64(1, RoundEven(v.n.lo, v.form = "fraction")), fraction |-> FALSE]

\* int(v) of a float64: the fraction is dropped.
IntOf(f) == f.n

\* strconv.Atoi: the forms it accepts, and its value.
AtoiOk(v) == v.form \in {"integer", "plus"}
Atoi(v) == v.n

\* mutant: a string is never converted.
ToIntNoStrings(v) == IF v.t = "number" THEN IntOf(Float64(v)) ELSE Zero

\* parseArguments' switch on the type of top and of skip; a JSON number
\* always arrives as a float64, so that the int case is never taken.
ToInt(v) ==
    CASE v.t = "number" -> IntOf(Float64(v))
      [] v.t = "string" /\ AtoiOk(v) -> Atoi(v)
      [] OTHER -> Zero

\* api.QueryParams{IgnoreNulls: true}
DefaultParams ==
    [Entity |-> "", Select |-> <<>>, Filter |-> <<>>, Top |-> Zero, Skip |-> Zero,
     OrderBy |-> <<>>, Expand |-> <<>>, IgnoreNulls |-> TRUE, IgnoreCase |-> FALSE]

TextOf(v) == IF v.t = "string" THEN TrimSpace(v.s) ELSE <<>>

\* ResoQueryTool.parseArguments: the error ("" for none) and the params.
parseArguments(args) ==
    IF args.entity.t # "string"
    THEN [err |-> "entity is required", params |-> DefaultParams]
    ELSE [err |-> "",
          params |->
            [Entity |-> args.entity.s,
             Select |-> TextOf(args.select),
             Filter |-> TextOf(args.filter),
             Top |-> ToInt(args.top),
             Skip |-> ToInt(args.skip),
             OrderBy |-> TextOf(args.orderby),
             Expand |-> TextOf(args.expand),
             IgnoreNulls |-> IF args.ignorenulls.t = "bool" THEN args.ignorenulls.b
                             ELSE TRUE,
             IgnoreCase |-> IF args.ignorecase.t = "bool" THEN args.ignorecase.b
                            ELSE FALSE]]

\* The keys Client.Query sets in queryParams.
QueryKeys(params) ==
    {k \in {"$select"} : params.Select # <<>>}
      \cup {k \in {"$filter"} : params.Filter # <<>>}
      \cup {k \in {"$top"} : Positive(params.Top)}
      \cup {k \in {"$skip"} : Positive(params.Skip)}
      \cup {k \in {"$orderby"} : params.OrderBy # <<>>}
      \cup {k \in {"$ignorenulls"} : params.IgnoreNulls}
      \cup {k \in {"$ignorecase"} : params.IgnoreCase}

\* The queryParams Client.Query builds.
QueryValues(params) ==
    [k \in QueryKeys(params) |->
       CASE k = "$select" -> params.Select
         [] k = "$filter" -> params.Filter
         [] k = "$top" -> Itoa(params.Top)
         [] k = "$skip" -> Itoa(params.Skip)
         [] k = "$orderby" -> params.OrderBy
         [] OTHER -> "true"]

\* The GET Client.Query sends for params.
QueryRequest(params) == [entity |-> params.Entity, query |-> QueryValues(params)]

\* The GET Client.GetMetadata sends.
MetadataRequest == [entity |-> "$metadata", query |-> NoValues]

\* http.StatusOK
StatusOK == 200

\* Statuses of an answer: 200, another 2xx (203 Non-Authoritative
\* Information) and a 4xx (404).
StatusCodes == {StatusOK, 203, 404}

\* Bodies: an OData result, a structured error {"error": {"code", "message"}},
\* another JSON object, and text that is not JSON.
Payloads == {"odata", "error", "object", "text"}

\* The ways a GET can end in Client.Query, and the error Query returns for
\* each ("" for none).
ApiOutcomes ==
    {Answer(f, 0, "", "", "") : f \in {"senderr", "readerr"}}
      \cup {Answer("answered", s, h, c, p)
               : s \in StatusCodes, h \in {""} \cup AcceptEncoding,
                 c \in {""} \cup AcceptEncoding, p \in Payloads}

\* One way for each return of Client.Query after the request is sent.
UsualAnswers ==
    {Answer("senderr", 0, "", "", ""), Answer("readerr", 0, "", "", ""),
     Answer("answered", StatusOK, "gzip", "", "odata"),
     Answer("answered", 404, "", "", "error"),
     Answer("answered", StatusOK, "", "", "text"),
     Answer("answered", StatusOK, "", "", "odata")}

\* mutant: the body is read as it came whatever the header says.
ReadBodyAsSent(o) == IF o.coded = "" THEN o.payload ELSE "binary"

\* Client.Query: the body read from the answer o. A gzip reader is put on
\* the body when the Content-Encoding header contains "gzip", and fails when
\* the body is not gzip data; under any other header the bytes are read as
\* they came.
ReadBody(o) ==
    IF o.ContentEncoding = "gzip"
    THEN IF o.coded = "gzip" THEN o.payload ELSE "gziperr"
    ELSE IF o.coded = "" THEN o.payload ELSE "binary"

\* json.Unmarshal accepts the body for a struct: it is a JSON object.
JSONObject(body) == body \in {"odata", "error", "object"}

\* ErrorResponse decoded from a body: the code and the message under "error",
\* empty when the object has no such member.
ErrorOf(body) ==
    IF body = "error" THEN [Code |-> "E", Message |-> "M"]
    ELSE [Code |-> "", Message |-> ""]

\* APIResponse decoded from a body: the records, the counts and the next-page
\* link, all zero when the object has none of these members.
APIResponseOf(body) == IF body = "odata" THEN "value, count, nextLink" ELSE ""

ApiError(o) ==
    IF o.fate = "senderr" THEN "failed to make request"
    ELSE IF o.fate = "readerr" THEN "failed to read response"
    ELSE IF ReadBody(o) = "gziperr" THEN "failed to create gzip reader"
    ELSE IF o.StatusCode # StatusOK
    THEN IF JSONObject(ReadBody(o))
         THEN "API error (" \o ToString(o.StatusCode) \o "): "
                \o ErrorOf(ReadBody(o)).Code \o " - " \o ErrorOf(ReadBody(o)).Message
         ELSE "API request failed with status " \o ToString(o.StatusCode)
                \o ": " \o ReadBody(o)
    ELSE IF ~JSONObject(ReadBody(o)) THEN "failed to parse response"
    ELSE ""

\* The ways the answer to GET $metadata can end in Client.GetMetadata; a 200
\* answer's body is metadata the parser accepts ("xml") or not ("junk").
MetaOutcomes == {"senderr", "readerr", "status", "xml", "junk"}

\* mutant: a failed exchange is tried once more before the error is returned.
GetTokenOutcomesRetrying(tok, exp, t, authOk) ==
    IF CacheValid(tok, exp, t) \/ DoubleCheck(tok, exp, t)
    THEN {[token |-> tok, tokenExpiry |-> exp,
           result |-> OkResult(tok.AccessToken), sent |-> 0]}
    ELSE IF ~authOk
    THEN {[token |-> tok, tokenExpiry |-> exp,
           result |-> ErrResult("reqerr"), sent |-> 0]}
    ELSE UNION {
           IF RefreshFails(kind)
           THEN {[token |-> tok, tokenExpiry |-> exp,
                  result |-> ErrResult(kind), sent |-> 2]}
           ELSE {[token |-> [isNil |-> FALSE, AccessToken |-> at, ExpiresIn |-> e],
                  tokenExpiry |-> ExpiryFor(t, e),
                  result |-> OkResult(at), sent |-> n]
                 : at \in AccessTokens, e \in ExpiresInValues, n \in {1, 2}}
           : kind \in AuthOutcomes}

\* OAuthClient.GetToken run by its only caller: the ways it can end from the
\* cache (tok, exp) at time t, with the number of auth exchanges sent.
GetTokenOutcomes(tok, exp, t, authOk) ==
    IF CacheValid(tok, exp, t) \/ DoubleCheck(tok, exp, t)
    THEN {[token |-> tok, tokenExpiry |-> exp,
           result |-> OkResult(tok.AccessToken), sent |-> 0]}
    ELSE IF ~authOk
    THEN {[token |-> tok, tokenExpiry |-> exp,
           result |-> ErrResult("reqerr"), sent |-> 0]}
    ELSE UNION {
           IF RefreshFails(kind)
           THEN {[token |-> tok, tokenExpiry |-> exp,
                  result |-> ErrResult(kind), sent |-> 1]}
           ELSE {[token |-> [isNil |-> FALSE, AccessToken |-> at, ExpiresIn |-> e],
                  tokenExpiry |-> ExpiryFor(t, e),
                  result |-> OkResult(at), sent |-> 1]
                 : at \in AccessTokens, e \in ExpiresInValues}
           : kind \in AuthOutcomes}

\* Client.Query: the ways it can end when the data endpoint ends a GET in one
\* of the ways A, with the cache it leaves, the HTTP exchanges it made, the
\* error it returns ("" for none) and the response it returns.
QueryOutcomes(params, tok, exp, t, authOk, baseOk, A) ==
    IF ~IsValidEntity(params.Entity)
    THEN {[token |-> tok, tokenExpiry |-> exp, http |-> NoHttp,
           err |-> "unsupported entity: " \o params.Entity, response |-> ""]}
    ELSE IF Positive(params.Skip)
            /\ Exceeds(params.Skip, GetEntitySkipLimit(params.Entity))
    THEN {[token |-> tok, tokenExpiry |-> exp, http |-> NoHttp,
           err |-> "skip value " \o Itoa(params.Skip) \o " exceeds limit "
                     \o ToString(GetEntitySkipLimit(params.Entity))
                     \o " for entity " \o params.Entity,
           response |-> ""]}
    ELSE UNION {
           IF g.result.kind = "err"
           THEN {[token |-> g.token, tokenExpiry |-> g.tokenExpiry,
                  http |-> [auth |-> g.sent, api |-> 0, request |-> NoRequest,
                            answer |-> NoAnswer],
                  err |-> "failed to get access token", response |-> ""]}
           ELSE IF ~baseOk
           THEN {[token |-> g.token, tokenExpiry |-> g.tokenExpiry,
                  http |-> [auth |-> g.sent, api |-> 0, request |-> NoRequest,
                            answer |-> NoAnswer],
                  err |-> "failed to create request", response |-> ""]}
           ELSE {[token |-> g.token, tokenExpiry |-> g.tokenExpiry,
                  http |-> [auth |-> g.sent, api |-> 1,
                            request |-> QueryRequest(params), answer |-> o],
                  err |-> ApiError(o),
                  response |-> IF ApiError(o) = "" THEN APIResponseOf(ReadBody(o))
                               ELSE ""] : o \in A}
           : g \in GetTokenOutcomes(tok, exp, t, authOk)}

\* mutant: the arguments are parsed before the credentials are looked at.
ExecuteQueryParsesFirst(args, c, tok, exp, t, authOk, baseOk, A) ==
    IF parseArguments(args).err # ""
    THEN {[token |-> tok, tokenExpiry |-> exp, http |-> NoHttp,
           result |-> ToolResult("Error parsing arguments", TRUE,
                                 parseArguments(args).err)]}
    ELSE IF ~ValidateCredentials(c)
    THEN {[token |-> tok, tokenExpiry |-> exp, http |-> NoHttp,
           result |-> ToolResult("Configuration error", TRUE,
                                 IF c.ClientID = "" THEN "client_id is required"
                                 ELSE "client_secret is required")]}
    ELSE {[token |-> q.token, tokenExpiry |-> q.tokenExpiry, http |-> q.http,
           result |-> IF q.err = "" THEN ToolResult("Query result", FALSE, q.response)
                      ELSE ToolResult("Error executing query", TRUE, q.err)]
          : q \in QueryOutcomes(parseArguments(args).params, tok, exp, t,
                                authOk, baseOk, A)}

\* ResoQueryTool.Execute on the arguments args of a call.
ExecuteQuery(args, c, tok, exp, t, authOk, baseOk, A) ==
    IF ~ValidateCredentials(c)
    THEN {[token |-> tok, tokenExpiry |-> exp, http |-> NoHttp,
           result |-> ToolResult("Configuration error", TRUE,
                                 IF c.ClientID = "" THEN "client_id is required"
                                 ELSE "client_secret is required")]}
    ELSE IF parseArguments(args).err # ""
    THEN {[token |-> tok, tokenExpiry |-> exp, http |-> NoHttp,
           result |-> ToolResult("Error parsing arguments", TRUE,
                                 parseArguments(args).err)]}
    ELSE {[token |-> q.token, tokenExpiry |-> q.tokenExpiry, http |-> q.http,
           result |-> IF q.err = "" THEN ToolResult("Query result", FALSE, q.response)
                      ELSE ToolResult("Error executing query", TRUE, q.err)]
          : q \in QueryOutcomes(parseArguments(args).params, tok, exp, t,
                                authOk, baseOk, A)}

\* getHelpContent's cases (topics are given in lower case here).
HelpTopics ==
    {"overview", "entities", "fields", "filters", "enums", "expand",
     "examples", "performance", "images", "metadata"}

\* ResoHelpTool.Execute on a topic argument.
ExecuteHelp(topic) ==
    IF topic.t # "string" THEN ToolResult("Help error", TRUE, "topic parameter is required")
    ELSE IF topic.s \notin HelpTopics THEN ToolResult("Help error", TRUE, "Unknown help topic")
    ELSE ToolResult("Help content", FALSE, "")

\* Client.GetMetadata: the ways it can end, body "" when it returns an error.
GetMetadataOutcomes(tok, exp, t, authOk, baseOk) ==
    UNION {
      IF g.result.kind = "err" \/ ~baseOk
      THEN {[token |-> g.token, tokenExpiry |-> g.tokenExpiry,
             http |-> [auth |-> g.sent, api |-> 0, request |-> NoRequest,
                       answer |-> NoAnswer],
             body |-> ""]}
      ELSE {[token |-> g.token, tokenExpiry |-> g.tokenExpiry,
             http |-> [auth |-> g.sent, api |-> 1, request |-> MetadataRequest,
                       answer |-> NoAnswer],
             body |-> IF o \in {"xml", "junk"} THEN o ELSE ""] : o \in MetaOutcomes}
      : g \in GetTokenOutcomes(tok, exp, t, authOk)}

\* tools.NewResoHelpToolWithAPI with a non-nil client: the cache file, then
\* the API, then the local files (found and parsable, or not).
NewResoHelpToolWithAPI(cf, tok, exp, t, authOk, baseOk) ==
    IF cf = "good"
    THEN {[tool |-> "metadata", cacheFile |-> cf, token |-> tok,
           tokenExpiry |-> exp, http |-> NoHttp]}
    ELSE UNION {
           IF m.body = "xml"
           THEN {[tool |-> "metadata", cacheFile |-> w, token |-> m.token,
                  tokenExpiry |-> m.tokenExpiry, http |-> m.http]
                 : w \in {"good", cf}}
           ELSE {[tool |-> l, cacheFile |-> cf, token |-> m.token,
                  tokenExpiry |-> m.tokenExpiry, http |-> m.http]
                 : l \in {"metadata", "fallback"}}
           : m \in GetMetadataOutcomes(tok, exp, t, authOk, baseOk)}

(***************************************************************************)
(* Lines of input.                                                         *)
(***************************************************************************)

MessageIds == {NoId} \cup Ids

Message(method, id, params) ==
    [kind |-> "msg", method |-> method, id |-> id, params |-> params, long |-> FALSE]

\* initialize params.
NoParams == [shape |-> "none", cap |-> NilMap, direct |-> NilMap, bare |-> NoKeys]
OtherParams == [shape |-> "other", cap |-> NilMap, direct |-> NilMap, bare |-> NoKeys]
MapParams(cap, direct, bare) ==
    [shape |-> "map",
     cap |-> [isNil |-> \A k \in Keys : cap[k] = Absent, kv |-> cap],
     direct |-> [isNil |-> \A k \in Keys : direct[k] = Absent, kv |-> direct],
     bare |-> bare]

\* A key's value in one place of the params: missing, a string of that place,
\* the empty string, or not a string.
ValuesIn(place, k) == {Absent, Str(ValueAt(place, k)), Str(""), NonStr}

Only(k, v) == [j \in Keys |-> IF j = k THEN v ELSE Absent]

InitParamsSmall ==
    {NoParams, OtherParams, MapParams(NoKeys, NoKeys, NoKeys),
     MapParams(NoKeys, NoKeys, [k \in Keys |-> Str(ValueAt("params", k))]),
     MapParams(NoKeys, Only("client_id", Str(ValueAt("settings", "client_id"))), NoKeys)}

\* Every combination of the three places for key f, the other key g being
\* carried by the params themselves or not at all.
InitParamsFor(f, g) ==
    {MapParams(Only(f, c), Only(f, d), [k \in Keys |-> IF k = f THEN b ELSE o])
       : c \in ValuesIn("capabilities", f), d \in ValuesIn("settings", f),
         b \in ValuesIn("params", f), o \in {Absent, Str(ValueAt("params", g))}}

InitParamsFull ==
    {NoParams, OtherParams}
      \cup InitParamsFor("client_id", "client_secret")
      \cup InitParamsFor("client_secret", "client_id")

\* tools/call params: missing, not decodable into CallToolParams, or a name
\* with arguments.
CallParams(name, args) == [shape |-> "map", name |-> name, args |-> args]

\* Arguments naming no optional field.
NoArgs ==
    [entity |-> Absent, select |-> NoText, filter |-> NoText, top |-> NoNumber,
     skip |-> NoNumber, orderby |-> NoText, expand |-> NoText,
     ignorenulls |-> NoBool, ignorecase |-> NoBool]

QueryArgs ==
    {[NoArgs EXCEPT !.entity = e, !.skip = s]
       : e \in {Absent, NonStr, Str("Property"), Str("Bogus")},
         s \in {NoNumber, JSONNumber("integer", Small(PropertySkipLimit + 1))}}

\* Integers around the bounds of top, and the first ones from 2^53 on.
TopNumbers ==
    {Small(n) : n \in {-1, 0, 1, 10, 1000, 1001}} \cup {Int64(1, d) : d \in 0..MaxBig}

\* Integers around zero and around each of the three skip limits.
SkipNumbers ==
    {-1, 0, 1} \cup UNION {{l, l + 1} : l \in {OtherSkipLimit, 500000, PropertySkipLimit}}

\* reso_query arguments, one family for each argument: the entity, each
\* text, top, skip, skip for each entity, the two flags, and all of them at
\* once.
QueryArgsFull ==
    LET EntityValues ==
            {Absent, NonStr}
              \cup {Str(e) : e \in SupportedEntities \cup {"property", "Bogus", ""}}
        TextValues == {NoText, NotText} \cup {Text(s) : s \in Texts}
        NumberForms == {"integer", "float", "fraction"}
        StringForms == NumberForms \cup {"plus", "spaced", "word"}
        NumberValues ==
            {NoNumber, NotNumber}
              \cup {JSONNumber(f, n) : f \in NumberForms, n \in TopNumbers}
              \cup {JSONString(f, n) : f \in StringForms, n \in TopNumbers}
        BoolValues == {NoBool, NotBool, Bool(TRUE), Bool(FALSE)}
        PropertyArgs == [NoArgs EXCEPT !.entity = Str("Property")]
    IN  {[NoArgs EXCEPT !.entity = e, !.skip = k]
           : e \in EntityValues, k \in {NoNumber, JSONNumber("integer", Small(1))}}
          \cup {[PropertyArgs EXCEPT !.select = v] : v \in TextValues}
          \cup {[PropertyArgs EXCEPT !.filter = v] : v \in TextValues}
          \cup {[PropertyArgs EXCEPT !.orderby = v] : v \in TextValues}
          \cup {[PropertyArgs EXCEPT !.expand = v] : v \in TextValues}
          \cup {[PropertyArgs EXCEPT !.top = v] : v \in NumberValues}
          \cup {[PropertyArgs EXCEPT !.skip = v] : v \in NumberValues}
          \cup {[NoArgs EXCEPT !.entity = Str(e),
                               !.skip = JSONNumber("integer", Small(n))]
                   : e \in SupportedEntities, n \in SkipNumbers}
          \cup {[PropertyArgs EXCEPT !.ignorenulls = n, !.ignorecase = c]
                   : n \in BoolValues, c \in BoolValues}
          \cup {[PropertyArgs EXCEPT !.select = v, !.filter = v, !.orderby = v,
                                     !.expand = v,
                                     !.top = JSONNumber("integer", Small(10)),
                                     !.skip = JSONNumber("integer", Small(1))]
                   : v \in {Text(<<"a">>), Text(<<" ", "a">>)}}

HelpArgs == {[topic |-> t] : t \in {Absent, Str("overview"), Str("bogus")}}

CallParamsAll ==
    {[shape |-> "none", name |-> "", args |-> [topic |-> Absent]],
     [shape |-> "bad", name |-> "", args |-> [topic |-> Absent]],
     CallParams("no_such_tool", [topic |-> Absent])}
      \cup {CallParams("reso_query", a) : a \in QueryArgs}
      \cup {CallParams("reso_help", a) : a \in HelpArgs}

ResourceURIs == {"reso://field-reference", "reso://quick-start"}

ReadParamsAll == {[uri |-> u] : u \in ResourceURIs \cup {"", "reso://other"}}

KnownMethods ==
    {"initialize", "initialized", "tools/list", "tools/call",
     "resources/list", "resources/read"}

\* Methods HandleMessage has no case for; "" is a message without a method.
OtherMethods == {"", "notifications/initialized", "ping"}

\* A line that is empty once trimmed, and a line that is not JSON.
BlankLine ==
    [kind |-> "blank", method |-> "", id |-> NoId, params |-> NoParams, long |-> FALSE]
GarbageLine ==
    [kind |-> "garbage", method |-> "", id |-> NoId, params |-> NoParams, long |-> FALSE]

\* Lines longer than the scanner's buffer (bufio.MaxScanTokenSize, main sets
\* no other): one that is not JSON, one that is a request.
LongLines ==
    {[GarbageLine EXCEPT !.long = TRUE],
     [Message("tools/list", Small(1), NoParams) EXCEPT !.long = TRUE]}

InitLines(P) == {Message("initialize", i, p) : i \in MessageIds, p \in P}

Lines ==
    {BlankLine, GarbageLine} \cup LongLines
      \cup InitLines(InitParamsSmall)
      \cup {Message(m, i, NoParams)
              : m \in {"initialized", "tools/list", "resources/list"} \cup OtherMethods,
                i \in MessageIds}
      \cup {Message("tools/call", i, p) : i \in MessageIds, p \in CallParamsAll}
      \cup {Message("resources/read", i, p) : i \in MessageIds, p \in ReadParamsAll}
      \cup {Message("ping", Int64(1, d), NoParams) : d \in 0..MaxBig}

\* An initialize request, then reso_query calls over QueryArgsFull.
QueryLines ==
    {Message("initialize", Small(1), NoParams)}
      \cup {Message("tools/call", Small(1), CallParams("reso_query", a)) : a \in QueryArgsFull}

ConfigLines == {Message("initialize", Small(1), p) : p \in InitParamsFull}

(***************************************************************************)
(* main's loop and MCPServer's handlers.                                   *)
(***************************************************************************)

\* mutant: the next line is taken while the last one waits to be handled.
ScanAhead(L) ==
    /\ line.kind \in {"none", "msg"}
    /\ \E l \in L : line' = l
    /\ UNCHANGED <<authVars, env, cacheFile, pendingSettings, config, oauth,
                   apiClient, resoTool, helpTool, out, http, initHandled>>

\* main: scanner.Scan() delivers the next line.
Scan(L) ==
    /\ line.kind = "none"
    /\ \E l \in L : line' = l
    /\ UNCHANGED <<authVars, env, cacheFile, pendingSettings, config, oauth,
                   apiClient, resoTool, helpTool, out, http, initHandled>>

\* main: json.Unmarshal([]byte(line), &msg) returns an error.
UnmarshalFails(l) == l.kind = "garbage"

\* main: the line is not empty and was decoded into msg.
Parsed ==
    /\ ~line.long
    /\ line.kind = "msg" \/ (line.kind = "garbage" /\ ~UnmarshalFails(line))

\* main: an empty line is skipped, an unparsable one is logged and skipped.
SkipLine ==
    /\ ~line.long
    /\ line.kind = "blank" \/ (line.kind = "garbage" /\ UnmarshalFails(line))
    /\ line' = Skipped(line.kind)
    /\ UNCHANGED <<authVars, env, cacheFile, pendingSettings, config, oauth,
                   apiClient, resoTool, helpTool, out, http, initHandled>>

\* main: the next line does not fit the scanner's buffer; scanner.Scan()
\* returns false, the error is logged and main returns.
StopReading ==
    /\ line.kind \in {"blank", "garbage", "msg"}
    /\ line.long
    /\ line' = Stopped(line.kind)
    /\ UNCHANGED <<authVars, env, cacheFile, pendingSettings, config, oauth,
                   apiClient, resoTool, helpTool, out, http, initHandled>>

\* The line is a parsed message for HandleMessage's case m.
Dispatched(m) == Parsed /\ line.method = m

\* msg.ID as json.Unmarshal leaves it for the line l: a number is decoded
\* into a float64, which json.Marshal writes back in full.
ID(l) == Float64(JSONNumber("integer", l.id)).n

\* main: the response is written unless it is the zero message.
Reply(response) ==
    /\ out' = [written |-> response.JSONRPC # "", msg |-> response]
    /\ line' = Handled(line)

\* handleInitialize, with MCPServer.Initialize.
HandleInitialize ==
    /\ Dispatched("initialize")
    /\ LET settings == MergedSettings(pendingSettings, line.params)
           c == InitializeConfig(config, settings, env)
       IN  /\ config' = c
           /\ oauth' = NewOAuthClient(c.ClientID, c.ClientSecret, c.AuthURL)
           /\ authURLOk' = UrlOk(c.AuthURL)
           /\ apiClient' = NewClient(c.BaseURL)
           /\ resoTool' = "set"
           /\ \E h \in NewResoHelpToolWithAPI(cacheFile, NilToken, ZeroTime, now,
                                              UrlOk(c.AuthURL), UrlOk(c.BaseURL)) :
                 /\ helpTool' = h.tool
                 /\ cacheFile' = h.cacheFile
                 /\ token' = h.token
                 /\ tokenExpiry' = h.tokenExpiry
                 /\ http' = h.http
           /\ Reply(IF InitializeFails(c)
                       THEN ErrorMessage(ID(line), -32603, "Initialization failed")
                       ELSE ResultMessage(ID(line), "InitializeResult"))
    /\ initHandled' = TRUE
    /\ UNCHANGED <<callerVars, now, env, pendingSettings>>

\* mutant: the notification is answered like a request.
HandleInitializedAnswers ==
    /\ Dispatched("initialized")
    /\ Reply(ResultMessage(ID(line), "InitializedResult"))
    /\ UNCHANGED <<authVars, env, cacheFile, pendingSettings, config, oauth,
                   apiClient, resoTool, helpTool, http, initHandled>>

\* handleInitialized
HandleInitialized ==
    /\ Dispatched("initialized")
    /\ Reply(EmptyMessage)
    /\ UNCHANGED <<authVars, env, cacheFile, pendingSettings, config, oauth,
                   apiClient, resoTool, helpTool, http, initHandled>>

\* mutant: tools/list does not look at the tools.
ToolsListGuardMissing(rt, ht) == FALSE

\* mutant: a help tool without metadata counts as no help tool.
ToolsListGuardNeedsMetadata(rt, ht) == rt = "nil" \/ ht # "metadata"

\* handleToolsList: s.resoTool == nil || s.helpTool == nil
ToolsListGuard(rt, ht) == rt = "nil" \/ ht = "nil"

\* handleToolsCall: s.resoTool == nil
ToolsCallGuard(rt) == rt = "nil"

\* handleToolsList
HandleToolsList ==
    /\ Dispatched("tools/list")
    /\ Reply(IF ToolsListGuard(resoTool, helpTool)
                THEN ErrorMessage(ID(line), -32603, "Server not initialized")
                ELSE ResultMessage(ID(line), "ListToolsResult"))
    /\ UNCHANGED <<authVars, env, cacheFile, pendingSettings, config, oauth,
                   apiClient, resoTool, helpTool, http, initHandled>>

\* mutant: params of any shape are taken as decoded.
ParamsAlwaysDecode(p) == FALSE

\* handleToolsCall: msg.Params is not nil and json.Unmarshal of it into
\* CallToolParams returns an error.
ParamsInvalid(p) == p.shape = "bad"

\* handleToolsCall, with the tool it runs; the data endpoint ends a GET in
\* one of the ways A.
HandleToolsCall(A) ==
    /\ Dispatched("tools/call")
    /\ IF ToolsCallGuard(resoTool)
       THEN /\ Reply(ErrorMessage(ID(line), -32603, "Server not initialized"))
            /\ UNCHANGED <<token, tokenExpiry, http>>
       ELSE IF ParamsInvalid(line.params)
       THEN /\ Reply(ErrorMessage(ID(line), -32602, "Invalid params"))
            /\ UNCHANGED <<token, tokenExpiry, http>>
       ELSE IF line.params.name = "reso_query"
       THEN \E x \in ExecuteQuery(line.params.args, config, token, tokenExpiry, now,
                                  authURLOk, UrlOk(apiClient.baseURL), A) :
                /\ token' = x.token
                /\ tokenExpiry' = x.tokenExpiry
                /\ http' = x.http
                /\ Reply(ToolMessage(ID(line), x.result))
       ELSE IF line.params.name = "reso_help"
       THEN /\ Reply(ToolMessage(ID(line), ExecuteHelp(line.params.args.topic)))
            /\ UNCHANGED <<token, tokenExpiry, http>>
       ELSE /\ Reply(ErrorMessage(ID(line), -32601, "Tool not found"))
            /\ UNCHANGED <<token, tokenExpiry, http>>
    /\ UNCHANGED <<callerVars, authURLOk, now, env, cacheFile, pendingSettings,
                   config, oauth, apiClient, resoTool, helpTool, initHandled>>

\* handleResourcesList
HandleResourcesList ==
    /\ Dispatched("resources/list")
    /\ Reply(ResultMessage(ID(line), "ListResourcesResult"))
    /\ UNCHANGED <<authVars, env, cacheFile, pendingSettings, config, oauth,
                   apiClient, resoTool, helpTool, http, initHandled>>

\* handleResourcesRead
HandleResourcesRead ==
    /\ Dispatched("resources/read")
    /\ Reply(IF line.params.uri \in ResourceURIs
                THEN ResultMessage(ID(line), "ReadResourceResult")
                ELSE ErrorMessage(ID(line), -32602, "Resource not found"))
    /\ UNCHANGED <<authVars, env, cacheFile, pendingSettings, config, oauth,
                   apiClient, resoTool, helpTool, http, initHandled>>

\* HandleMessage's default case.
HandleUnknown ==
    /\ Parsed
    /\ line.method \notin KnownMethods
    /\ Reply(ErrorMessage(ID(line), -32601, "Method not found"))
    /\ UNCHANGED <<authVars, env, cacheFile, pendingSettings, config, oauth,
                   apiClient, resoTool, helpTool, http, initHandled>>

\* mutant: the loop goes on only after a response that reports no tool error.
ContinueUnlessToolError ==
    /\ line.kind = "handled"
    /\ ~out.msg.isError
    /\ line' = NoLine
    /\ out' = NoOut
    /\ http' = NoHttp
    /\ UNCHANGED <<authVars, env, cacheFile, pendingSettings, config, oauth,
                   apiClient, resoTool, helpTool, initHandled>>

\* main: the loop goes back to scanner.Scan(); the record of what the last
\* line did is dropped.
Continue ==
    /\ line.kind = "handled"
    /\ line' = NoLine
    /\ out' = NoOut
    /\ http' = NoHttp
    /\ UNCHANGED <<authVars, env, cacheFile, pendingSettings, config, oauth,
                   apiClient, resoTool, helpTool, initHandled>>

\* Time passes between two lines.
Wait ==
    /\ line.kind = "none"
    /\ now < MaxNow
    /\ now' = now + 1
    /\ UNCHANGED <<callerVars, token, tokenExpiry, authURLOk, serverVars>>

\* The auth.OAuthClient variables before any client is built, no caller running.
InitNoCallers ==
    /\ token = NilToken
    /\ tokenExpiry = ZeroTime
    /\ readers = {}
    /\ writer = 0
    /\ authURLOk = TRUE
    /\ now = 0
    /\ pc = [p \in Callers |-> "idle"]
    /\ result = [p \in Callers |-> NoResult]
    /\ tokenResp = [p \in Callers |-> NilToken]
    /\ seen = [p \in Callers |-> NoSeen]
    /\ lastOutcome = "none"
    /\ exch = [p \in Callers |-> 0]
    /\ missed0 = {}
    /\ refreshBegun = FALSE
    /\ first = NoFirst
    /\ obtained = ZeroTime

WithFlags(e, ks) ==
    [e EXCEPT !.cred["flag"] = [k \in Keys |-> IF k \in ks THEN ValueAt("flag", k) ELSE ""]]

\* The environments the loop is started in.
Envs ==
    {NoEnv, WithFlags(NoEnv, Keys), WithFlags(NoEnv, {"client_id"}),
     [NoEnv EXCEPT !.RESO_AUTH_URL = AltAuthURL, !.RESO_BASE_URL = AltBaseURL],
     [NoEnv EXCEPT !.RESO_AUTH_URL = BadURL]}

Init ==
    /\ InitNoCallers
    /\ \E e \in Envs, cf \in {"absent", "bad", "good"} : InitServer(e, cf)

Next ==
    \/ Scan(Lines)
    \/ SkipLine
    \/ StopReading
    \/ HandleInitialize
    \/ HandleInitialized
    \/ HandleToolsList
    \/ HandleToolsCall(UsualAnswers)
    \/ HandleResourcesList
    \/ HandleResourcesRead
    \/ HandleUnknown
    \/ Continue
    \/ Wait

Spec == Init /\ [][Next]_vars

\* Every combination of the four start-up places for key f, the other key g
\* given by its flag or not at all.
EnvsFor(f, g) ==
    {[NoEnv EXCEPT !.cred = [src \in EnvSources |->
          [k \in Keys |-> IF k = f THEN (IF src \in S THEN ValueAt(src, f) ELSE "")
                          ELSE (IF src = "flag" /\ o THEN ValueAt(src, g) ELSE "")]]]
       : S \in SUBSET EnvSources, o \in BOOLEAN}

InitConfig ==
    /\ InitNoCallers
    /\ \E e \in EnvsFor("client_id", "client_secret")
                  \cup EnvsFor("client_secret", "client_id") : InitServer(e, "good")

NextConfig ==
    \/ Scan(ConfigLines)
    \/ HandleInitialize
    \/ Continue

SpecConfig == InitConfig /\ [][NextConfig]_vars

\* The loop fed reso_query calls only, started with both credentials or
\* with none.
InitQuery ==
    /\ InitNoCallers
    /\ \E e \in {NoEnv, WithFlags(NoEnv, Keys)} : InitServer(e, "good")

NextQuery ==
    \/ Scan(QueryLines)
    \/ HandleInitialize
    \/ HandleToolsCall(UsualAnswers)
    \/ Continue

SpecQuery == InitQuery /\ [][NextQuery]_vars

\* An initialize request, then reso_query calls for two entities, with and
\* without a filter.
AnswerLines ==
    {Message("initialize", Small(1), NoParams)}
      \cup {Message("tools/call", Small(1),
                    CallParams("reso_query", [NoArgs EXCEPT !.entity = Str(e), !.filter = f]))
               : e \in {"Property", "Member"}, f \in {NoText, Text(<<"a">>)}}

\* The loop fed reso_query calls which the data endpoint answers in every way
\* of ApiOutcomes.
NextAnswer ==
    \/ Scan(AnswerLines)
    \/ HandleInitialize
    \/ HandleToolsCall(ApiOutcomes)
    \/ Continue
    \/ Wait

SpecAnswer == InitQuery /\ [][NextAnswer]_vars

(***************************************************************************)
(* Claims about configuration, checked under SpecConfig.                   *)
(***************************************************************************)

\* The step in which the initialize request in line is handled.
InitializeStep == Dispatched("initialize") /\ line'.kind = "handled"

\* The two credentials of a credential manager, and of a configuration.
CredentialsOf(o) == [client_id |-> o.clientID, client_secret |-> o.clientSecret]
HeldBy(c) == [client_id |-> c.ClientID, client_secret |-> c.ClientSecret]

\* What the params of an initialize request carry for key k: the value of the
\* highest of its places holding the key (the params themselves, above their
\* settings object, above the settings object of capabilities).
ParamsCarry(p, k) ==
    IF p.shape # "map" THEN Absent
    ELSE IF p.bare[k] # Absent THEN p.bare[k]
    ELSE IF p.direct.kv[k] # Absent THEN p.direct.kv[k]
    ELSE p.cap.kv[k]

\* The value of the first start-up place of order (highest first) that is set
\* for key k, "" when none is.
FirstSet(e, k, order) ==
    LET set == {i \in 1..Len(order) : e.cred[order[i]][k] # ""}
    IN  IF set = {} THEN ""
        ELSE e.cred[order[CHOOSE i \in set : \A j \in set : i <= j]][k]

\* C6 as stated: for each of client_id and client_secret, the credential
\* manager built by initialize holds the value of the highest-precedence
\* source defining the key, with precedence CLIENT_ID/CLIENT_SECRET <
\* RESO_CLIENT_ID/RESO_CLIENT_SECRET < command-line flag < initialize params
\* (stated for params that carry the key as a non-empty string or not at all,
\* and for a key that one of the four sources defines).
C6_PrecedenceAsStated ==
    [][InitializeStep =>
         \A k \in Keys :
            LET pv == ParamsCarry(line.params, k)
                ev == FirstSet(env, k, <<"flag", "RESO", "CLIENT">>)
            IN  ((pv = Absent \/ NonEmptyString(pv)) /\ (pv # Absent \/ ev # ""))
                    => CredentialsOf(oauth')[k] = IF pv # Absent THEN pv.s ELSE ev]_vars

\* C6 amended: for each of client_id and client_secret, let v be what the
\* highest-precedence source carrying the key carries, with precedence
\* MCP_RESO_ variable < RESO_ variable < CLIENT_ID/CLIENT_SECRET < command-line
\* flag < initialize params (a flag or variable carries the key when it is
\* non-empty). The credential manager built by initialize holds v when v is a
\* non-empty string; otherwise (no source carries the key, or v is empty or
\* not a string) it holds what the configuration held before the request.
C6_PrecedenceOfSources ==
    [][InitializeStep =>
         \A k \in Keys :
            LET pv == ParamsCarry(line.params, k)
                ev == FirstSet(env, k, <<"flag", "CLIENT", "RESO", "MCP_RESO">>)
                v == IF pv # Absent THEN pv ELSE IF ev # "" THEN Str(ev) ELSE Absent
            IN  CredentialsOf(oauth')[k] =
                    IF NonEmptyString(v) THEN v.s ELSE HeldBy(config)[k]]_vars

C6_Witness ==
    /\ line.kind = "handled"
    /\ ~oauth.isNil
    /\ \E k \in Keys :
          /\ env.cred["CLIENT"][k] # ""
          /\ env.cred["RESO"][k] # ""
          /\ CredentialsOf(oauth)[k] = env.cred["CLIENT"][k]

(***************************************************************************)
(* Claims about the message loop, checked under Spec.                      *)
(***************************************************************************)

\* C7: before any initialize request has been handled, every tools/list and
\* every tools/call request is answered with error -32603 carrying the
\* request's id; no tool runs and no HTTP exchange is made.
C7_UninitializedToolsRefused ==
    [][(/\ line.kind = "msg"
        /\ line.method \in {"tools/list", "tools/call"}
        /\ ~initHandled
        /\ line'.kind = "handled") =>
           /\ out' = [written |-> TRUE,
                      msg |-> ErrorMessage(line.id, -32603, "Server not initialized")]
           /\ http' = NoHttp
           /\ token' = token /\ tokenExpiry' = tokenExpiry]_vars

C7_Witness ==
    /\ line.kind = "handled"
    /\ ~initHandled
    /\ out.written
    /\ out.msg.code = -32603
    /\ out.msg.id \in Ids

\* C8: every initialize request is answered with a success result, never an
\* error, and leaves the session initialized (both tools built), whether or
\* not any source gave a client id and a client secret.
C8_InitializeSucceeds ==
    [][InitializeStep =>
           /\ out' = [written |-> TRUE,
                      msg |-> ResultMessage(line.id, "InitializeResult")]
           /\ initHandled'
           /\ resoTool' # "nil" /\ helpTool' # "nil"]_vars

C8_Witness ==
    /\ line.kind = "handled"
    /\ out.msg.tag = "InitializeResult"
    /\ config.ClientID = "" /\ config.ClientSecret = ""

\* C9: once initialized, with the client id or the client secret empty, a
\* tools/call for reso_query is answered with a result whose isError is true
\* and which carries a configuration error; no HTTP exchange is made (auth or
\* data) and the session stays initialized, the loop going on.
C9_NoCredentialsNoExchange ==
    [][(/\ Dispatched("tools/call")
        /\ line.params.shape = "map"
        /\ line.params.name = "reso_query"
        /\ initHandled
        /\ (config.ClientID = "" \/ config.ClientSecret = "")
        /\ line'.kind = "handled") =>
           /\ out'.written
           /\ out'.msg.kind = "result"
           /\ out'.msg.id = line.id
           /\ out'.msg.isError
           /\ out'.msg.tag = "Configuration error"
           /\ http' = NoHttp
           /\ token' = token /\ tokenExpiry' = tokenExpiry
           /\ initHandled' /\ resoTool' = "set" /\ config' = config]_vars

C9_Witness ==
    /\ line.kind = "handled"
    /\ out.msg.tag = "Configuration error"
    /\ out.msg.isError
    /\ http = NoHttp
    /\ config.ClientID # "" /\ config.ClientSecret = ""

\* C10 as stated: handling a message that carries no id, whatever its method,
\* writes nothing to the output stream.
C10_NotificationsSilent ==
    [][(line.kind = "msg" /\ line.id = NoId /\ line'.kind = "handled")
           => ~out'.written]_vars

\* Everything but the line being handled: what later lines are answered from.
sessionVars == <<authVars, env, cacheFile, pendingSettings, config, oauth,
                 apiClient, resoTool, helpTool, out, http, initHandled>>

\* C11 as stated: a line that is not valid JSON produces no output and does
\* not stop the loop: handling it changes nothing but the line itself, and the
\* loop then goes back to the scanner in the very state it was in before the
\* line, so every later request is answered as if the line had not been there.
C11_MalformedLineSkipped ==
    [][/\ line.kind = "garbage" =>
             /\ line' = Skipped("garbage")
             /\ ~out'.written
             /\ UNCHANGED sessionVars
       /\ line = Skipped("garbage") =>
             /\ line' = NoLine
             /\ UNCHANGED sessionVars]_vars

(***************************************************************************)
(* The query tool.                                                         *)
(***************************************************************************)

\* The line being handled is a reso_query call with a string for entity.
QueryCall ==
    /\ line.kind = "msg"
    /\ ~line.long
    /\ line.method = "tools/call"
    /\ line.params.shape = "map"
    /\ line.params.name = "reso_query"
    /\ line.params.args.entity.t = "string"

\* The server holds its tools and both credentials: the call reaches
\* parseArguments and Client.Query.
Ready == resoTool # "nil" /\ ValidateCredentials(config)

\* The call is answered with an error, by the server or by the tool.
Rejected(o) == o.written /\ (o.msg.kind = "error" \/ o.msg.isError)

\* C12: a reso_query call whose entity is not, letter for letter, one of the
\* nine catalog names is answered with an error and makes no HTTP exchange,
\* neither for a token nor for data, whether a token is cached or not; the
\* error of a server that is ready for queries names the entity.
C12_UnknownEntityRejected ==
    [][(QueryCall /\ line.params.args.entity.s \notin SupportedEntities)
         => /\ Cardinality(SupportedEntities) = 9
            /\ Rejected(out')
            /\ http' = NoHttp
            /\ UNCHANGED <<token, tokenExpiry>>
            /\ Ready => /\ out'.msg.tag = "Error executing query"
                        /\ out'.msg.detail
                             = "unsupported entity: " \o line.params.args.entity.s]_vars

\* A catalog name in lower case has been refused while no token was cached.
C12_Witness ==
    /\ out.written
    /\ out.msg.isError
    /\ out.msg.detail = "unsupported entity: property"
    /\ token.isNil
    /\ http = NoHttp

\* The skip ceiling of each catalog entity.
Ceiling(e) ==
    CASE e = "Property" -> 1000000
      [] e \in {"Office", "Member", "OpenHouse"} -> 500000
      [] e \in {"Media", "PropertyRooms", "Dom", "RawMlsProperty",
                "PropertyUnitTypes"} -> 50000

\* The line being handled is a reso_query call for a catalog entity with the
\* integer n for skip and nothing else.
SkipCall(e, n) ==
    /\ QueryCall
    /\ line.params.args = [NoArgs EXCEPT !.entity = Str(e),
                                         !.skip = JSONNumber("integer", Small(n))]

\* C13: for every catalog entity, a call on a ready server with a positive
\* skip above the entity's ceiling is answered with an error giving the value
\* and the limit and makes no HTTP exchange; with a skip up to the ceiling it
\* goes on to the remote call (the token exchange when no fresh token is
\* cached, then the data request).
C13_SkipCeiling ==
    [][\A e \in SupportedEntities :
         \A n \in SkipNumbers :
           (Ready /\ SkipCall(e, n))
             => IF n > Ceiling(e)
                THEN /\ Rejected(out')
                     /\ out'.msg.detail
                          = "skip value " \o ToString(n) \o " exceeds limit "
                              \o ToString(Ceiling(e)) \o " for entity " \o e
                     /\ http' = NoHttp
                     /\ UNCHANGED <<token, tokenExpiry>>
                ELSE /\ http'.auth + http'.api >= 1
                     /\ http'.auth = 0 => http'.request.entity = e
                     /\ out'.msg.tag # "Error parsing arguments"
                     /\ out'.msg.isError => http'.api = 0 \/ out'.msg.detail \in
                           {ApiError(o) : o \in ApiOutcomes}]_vars

\* Media has been refused one above its ceiling while no token was cached.
C13_Witness ==
    /\ out.written
    /\ out.msg.detail = "skip value 50001 exceeds limit 50000 for entity Media"
    /\ token.isNil
    /\ http = NoHttp

\* C14 as stated: when a reso_query call names no top, the data request sent
\* for it carries $top=10.
C14_OmittedTopIsTen ==
    [][(QueryCall /\ line.params.args.top.t = "absent" /\ http'.api = 1)
         => /\ "$top" \in DOMAIN http'.request.query
            /\ http'.request.query["$top"] = "10"]_vars

\* C15 as stated: a reso_query call on a ready server whose top is an integer
\* below 1 or above 1000 is answered with an error and makes no HTTP
\* exchange.
C15_TopOutOfRangeRejected ==
    [][\A n \in {-1, 0, 1001} :
         (Ready /\ QueryCall
            /\ line.params.args.top = JSONNumber("integer", Small(n)))
           => Rejected(out') /\ http' = NoHttp]_vars

\* The data request req carries the text v of an argument, trimmed, under
\* the key k whenever the trimmed text is not empty.
Carries(req, k, v) ==
    (v.t = "string" /\ TrimSpace(v.s) # <<>>)
      => k \in DOMAIN req.query /\ req.query[k] = TrimSpace(v.s)

\* C16 as stated: the data request sent for a reso_query call carries
\* $select, $filter, $orderby and $expand equal to the trimmed text of the
\* argument of that name, for each of the four whose trimmed text is not
\* empty.
C16_TextsCarried ==
    [][(QueryCall /\ http'.api = 1)
         => /\ Carries(http'.request, "$select", line.params.args.select)
            /\ Carries(http'.request, "$filter", line.params.args.filter)
            /\ Carries(http'.request, "$orderby", line.params.args.orderby)
            /\ Carries(http'.request, "$expand", line.params.args.expand)]_vars

\* The line handled was a reso_query call that led to a data request.
Queried == line.kind = "handled" /\ line.method = "tools/call" /\ http.api = 1

\* The text argument v is missing or is white space only.
Blank(v) == v.t = "absent" \/ (v.t = "string" /\ \A i \in 1..Len(v.s) : v.s[i] = " ")

\* The number argument v is missing or is the integer 0 in any notation.
Nought(v) ==
    \/ v.t = "absent"
    \/ v.t \in {"number", "string"} /\ v.form \in {"integer", "float"} /\ v.n = Zero

\* C17: in the data request sent for a reso_query call, $select, $filter and
\* $orderby are absent when the argument is missing or empty once trimmed, and
\* $skip is absent when skip is missing or 0.
C17_EmptyFieldsAbsent ==
    [][(QueryCall /\ http'.api = 1)
         => LET a == line.params.args
                q == http'.request.query
            IN  /\ Blank(a.select) => "$select" \notin DOMAIN q
                /\ Blank(a.filter) => "$filter" \notin DOMAIN q
                /\ Blank(a.orderby) => "$orderby" \notin DOMAIN q
                /\ Nought(a.skip) => "$skip" \notin DOMAIN q]_vars

\* A query has been sent for a call whose skip was 0 and that named no
\* select, filter or orderby.
C17_Witness ==
    /\ Queried
    /\ line.params.args.skip = JSONNumber("integer", Zero)
    /\ line.params.args.filter = NoText
    /\ DOMAIN http.request.query = {"$ignorenulls"}

\* The line being handled is a reso_query call on Property whose only other
\* argument is f, with value v.
NumberCall(f, v) ==
    /\ QueryCall
    /\ line.params.args = [NoArgs EXCEPT !.entity = Str("Property"), ![f] = v]

\* The integer n written as a JSON integer, as a JSON number with a zero
\* fraction, and as a string of decimal digits.
Notations(n) ==
    {JSONNumber("integer", n), JSONNumber("float", n), JSONString("integer", n)}

\* What a step handling a call whose top or skip (k says which) is n shows
\* of the request built: the data request sent holds n under k, or holds no
\* k when n is not positive, and a refusal for the skip limit reports n.
Holds(k, n, o, h) ==
    /\ o.msg.tag # "Error parsing arguments"
    /\ h.api = 1 => IF Positive(n)
                    THEN k \in DOMAIN h.request.query /\ h.request.query[k] = Itoa(n)
                    ELSE k \notin DOMAIN h.request.query
    /\ (h = NoHttp /\ k = "$skip")
         => o.msg.detail = "skip value " \o Itoa(n) \o " exceeds limit "
                             \o ToString(Ceiling("Property")) \o " for entity Property"

\* Values of top and skip that are no numbers: an array or a boolean, a word.
NonNumeric == {NotNumber, JSONString("word", Zero)}

\* A non-numeric top or skip leaves the field unset and is no error.
Unset(k, o, h) ==
    /\ o.msg.tag # "Error parsing arguments"
    /\ h.auth + h.api >= 1
    /\ h.api = 1 => k \notin DOMAIN h.request.query

\* C18 as stated: for top and for skip and every integer n, the three
\* notations of n give the same request, the one holding n; a non-numeric
\* value leaves the field unset without an error.
C18_NotationsAgree ==
    [][\A f \in {"top", "skip"} :
         /\ \A n \in TopNumbers : \A v \in Notations(n) :
              (Ready /\ NumberCall(f, v)) => Holds("$" \o f, n, out', http')
         /\ \A v \in NonNumeric :
              (Ready /\ NumberCall(f, v)) => Unset("$" \o f, out', http')]_vars

\* C18, amended: the same for every integer n of magnitude at most 2^53, the
\* integers a JSON number carries exactly.
C18_NotationsAgreeUpTo2p53 ==
    [][\A f \in {"top", "skip"} :
         /\ \A n \in {m \in TopNumbers : m.hi = 0 \/ m.lo = 0} : \A v \in Notations(n) :
              (Ready /\ NumberCall(f, v)) => Holds("$" \o f, n, out', http')
         /\ \A v \in NonNumeric :
              (Ready /\ NumberCall(f, v)) => Unset("$" \o f, out', http')]_vars

\* A query has been sent with $top=10 for a call whose top was the string
\* "10".
C18_Witness ==
    /\ Queried
    /\ line.params.args.top = JSONString("integer", Small(10))
    /\ http.request.query["$top"] = "10"

\* The cached token was stored at time t and lives one hour.
HourTokenFrom(t) == ~token.isNil /\ token.ExpiresIn = 3600 /\ obtained = t

\* C19: with a token of expires_in 3600 stored at time t in the cache, a
\* GetToken call that checks the cache at t + 3539 s finds it valid and
\* returns the cached token without an exchange, and a call that checks it at
\* t + 3541 s misses and, once it holds the lock at that time, sends a refresh
\* exchange.
C19_HourTokenInstants ==
    [][\A p \in Callers :
         /\ (pc[p] = "idle" /\ pc'[p] # "idle" /\ HourTokenFrom(now - 3539))
              => pc'[p] = "read" /\ exch'[p] = 0
         /\ (pc[p] = "read" /\ pc'[p] = "idle")
              => /\ result'[p] = OkResult(token.AccessToken)
                 /\ exch'[p] = 0
                 /\ UNCHANGED <<token, tokenExpiry>>
         /\ (pc[p] = "idle" /\ pc'[p] # "idle" /\ HourTokenFrom(now - 3541))
              => pc'[p] = "miss"
         /\ (pc[p] = "wlock" /\ pc'[p] # "wlock" /\ HourTokenFrom(now - 3541))
              => pc'[p] = "http" /\ exch'[p] = 1]_vars

\* A caller is in its refresh exchange 3541 s after the cached token was
\* stored, another call having been served from the cache before.
C19_Witness ==
    \E p \in Callers :
        /\ pc[p] = "http"
        /\ HourTokenFrom(now - 3541)
        /\ \E q \in Callers \ {p} : result[q] = OkResult(token.AccessToken) /\ exch[q] = 0

\* A refresh has stored the new token and not yet its expiry: the cache holds
\* the new token with the old expiry.
HalfWritten == \E q \in Callers : pc[q] = "store2"

\* Caller p reads the cache in this step: the optimistic check, the read of
\* the access token that follows a hit, the double check.
Observes(p) ==
    \/ pc[p] = "idle" /\ pc'[p] \in {"read", "miss"}
    \/ pc[p] = "read" /\ pc'[p] = "idle"
    \/ pc[p] = "wlock" /\ pc'[p] # "wlock"

\* C20: no caller reads the cache while it holds the new token with the old
\* expiry, so that what a caller observes is the pair as it was before the
\* refresh or as it is after it; a caller that found the cached token valid
\* is handed that very token; and the token changes only by a refresh storing
\* the decoded answer whole in its place, the expiry only by the same refresh
\* in its next step.
C20_PairNeverTorn ==
    [][/\ \A p \in Callers : Observes(p) => ~HalfWritten
       /\ \A p \in Callers :
            (pc[p] = "read" /\ pc'[p] = "idle")
              => seen[p].valid /\ result'[p] = OkResult(seen[p].tok)
       /\ token' # token
            => \E q \in Callers :
                 /\ pc[q] = "store" /\ pc'[q] = "store2" /\ writer = q
                 /\ token' = tokenResp[q]
                 /\ tokenExpiry' = tokenExpiry
       /\ tokenExpiry' # tokenExpiry
            => \E q \in Callers :
                 /\ pc[q] = "store2" /\ pc'[q] = "idle" /\ writer = q
                 /\ token' = token]_vars

\* The cache holds the new token with the old expiry, which differs from the
\* expiry about to be stored, while a caller that was handed the old token
\* is free to call again.
C20_Witness ==
    \E q \in Callers :
        /\ pc[q] = "store2"
        /\ tokenExpiry # ExpiryFor(now, token.ExpiresIn)
        /\ \E p \in Callers \ {q} : pc[p] = "idle" /\ result[p].kind = "ok"
                                  /\ result[p].token # token.AccessToken

\* What the session consists of: the configuration, the clients, the tools
\* and the token cache.
session == <<pendingSettings, config, oauth, authURLOk, apiClient, resoTool,
             helpTool, cacheFile, token, tokenExpiry, initHandled>>

\* C21 as stated: every response written carries the id of the request that
\* caused it; a request whose method HandleMessage does not route is answered
\* with error -32601 carrying its id, and leaves the session as it was.
C21_ResponseEchoesId ==
    [][(line.kind = "msg" /\ line'.kind = "handled")
         => /\ out'.written => out'.msg.id = line.id
            /\ line.method \notin KnownMethods
                 => /\ out'.written
                    /\ out'.msg.kind = "error"
                    /\ out'.msg.code = -32601
                    /\ out'.msg.id = line.id
                    /\ UNCHANGED session]_vars

\* C22: handling a message whose method is initialized writes nothing,
\* whether or not it carries an id and whether or not the server has been
\* initialized, and leaves the session as it was.
C22_InitializedIsSilent ==
    [][(line.kind = "msg" /\ line.method = "initialized" /\ line'.kind = "handled")
         => /\ ~out'.written
            /\ UNCHANGED session]_vars

\* An initialized message carrying an id has been handled by an initialized
\* server.
C22_Witness ==
    /\ line.kind = "handled"
    /\ line.method = "initialized"
    /\ line.id # NoId
    /\ resoTool = "set"
    /\ ~out.written

\* The line being handled is a call of the tool reso_query.
QueryCallHandled ==
    /\ line.kind = "msg"
    /\ line.method = "tools/call"
    /\ line.params.shape = "map"
    /\ line.params.name = "reso_query"
    /\ line'.kind = "handled"

\* C23: nothing is retried. From any cache a GetToken call sends at most one
\* auth exchange, and one that ends in an error leaves the cache as it was;
\* handling a reso_query call sends at most one auth exchange and at most one
\* data GET; a call whose token request failed reports it in an error result
\* and records nothing, so that the next call starts from the same cache.
C23_NothingRetried ==
    /\ [](\A g \in GetTokenOutcomes(token, tokenExpiry, now, authURLOk) :
             /\ g.sent <= 1
             /\ g.result.kind = "err"
                  => g.token = token /\ g.tokenExpiry = tokenExpiry)
    /\ [][QueryCallHandled
            => /\ http'.auth <= 1
               /\ http'.api <= 1
               /\ http'.auth = 1 /\ http'.api = 0 /\ UrlOk(apiClient.baseURL)
                    => /\ out'.written
                       /\ out'.msg.isError
                       /\ out'.msg.detail = "failed to get access token"
               /\ out'.msg.detail = "failed to get access token"
                    => UNCHANGED <<token, tokenExpiry, config, oauth, apiClient>>]_vars

\* A reso_query call has sent one auth exchange, which failed, and no data
\* GET; the cache is still empty.
C23_Witness ==
    /\ line.kind = "handled"
    /\ line.method = "tools/call"
    /\ line.params.name = "reso_query"
    /\ http.auth = 1
    /\ http.api = 0
    /\ out.msg.isError
    /\ out.msg.detail = "failed to get access token"
    /\ token.isNil

\* The step handles a reso_query call whose GET was answered by a, the body
\* of which Client.Query read as b.
Answered(a, b) ==
    /\ QueryCallHandled
    /\ http'.api = 1
    /\ a = http'.answer
    /\ a.fate = "answered"
    /\ b = ReadBody(a)
    /\ b # "gziperr"

\* C24 as stated: an answer is classified by its status. Every 2xx answer
\* with a body that parses gives a success result; an answer that is not 2xx
\* gives an error carrying the code and the message of a structured error
\* body, and the raw text of any other body; a 2xx answer whose body does not
\* parse gives the parse error.
C24_ClassifiedByStatus ==
    [][\A a \in ApiOutcomes, b \in Payloads \cup {"binary"} :
         Answered(a, b)
           => LET ok == a.StatusCode \in 200..299
                  r == out'.msg
              IN  /\ ok /\ JSONObject(b)
                       => ~r.isError /\ r.detail = APIResponseOf(b)
                  /\ ~ok /\ b = "error"
                       => /\ r.isError
                          /\ r.detail = "API error (" \o ToString(a.StatusCode) \o "): "
                                          \o ErrorOf(b).Code \o " - " \o ErrorOf(b).Message
                  /\ ~ok /\ b # "error"
                       => /\ r.isError
                          /\ r.detail = "API request failed with status "
                                          \o ToString(a.StatusCode) \o ": " \o b
                  /\ ok /\ ~JSONObject(b)
                       => r.isError /\ r.detail = "failed to parse response"]_vars

\* An endpoint in effect when the environment variable v overrides the
\* default d.
Overridden(v, d) == IF v # "" THEN v ELSE d

\* C25 as stated: the clients built by an initialize request use the values
\* of RESO_AUTH_URL and RESO_BASE_URL when these are set and not empty,
\* wherever the credentials came from, and the defaults when they are unset.
C25_EndpointOverrides ==
    [][(line.kind = "msg" /\ line.method = "initialize" /\ line'.kind = "handled")
         => /\ oauth'.authURL = Overridden(env.RESO_AUTH_URL, DefaultConfig.AuthURL)
            /\ apiClient'.baseURL = Overridden(env.RESO_BASE_URL, DefaultConfig.BaseURL)]_vars

\* C26 as stated: after an initialize request the configuration is the one
\* resolved from the sources read at start-up and the params of that request
\* alone, whatever requests came before, and handling the same request once
\* more would leave it as it is.
C26_LastInitializeDecides ==
    [][(line.kind = "msg" /\ line.method = "initialize" /\ line'.kind = "handled")
         => LET settings == MergedSettings(pendingSettings, line.params)
            IN  /\ config' = InitializeConfig(DefaultConfig, settings, env)
                /\ InitializeConfig(config', settings, env) = config']_vars

\* The answer a as it would be with its body sent uncompressed and no
\* Content-Encoding header.
Uncompressed(a) == [a EXCEPT !.ContentEncoding = "", !.coded = ""]

\* C27: a call whose GET is answered with a gzip body declared in the
\* Content-Encoding header gives the result (records, counts and next-page
\* link, or error) that Client.Query gives for the same answer sent
\* uncompressed.
C27_GzipSameResult ==
    [][\A a \in ApiOutcomes :
         (/\ QueryCallHandled
          /\ http'.api = 1
          /\ a = http'.answer
          /\ a.ContentEncoding = "gzip"
          /\ a.coded = "gzip")
           => LET plain == Uncompressed(a)
              IN  /\ out'.msg.isError = (ApiError(plain) # "")
                  /\ out'.msg.detail = IF ApiError(plain) = ""
                                          THEN APIResponseOf(plain.payload)
                                          ELSE ApiError(plain)]_vars

\* A call answered 200 with a gzip OData body has returned the records.
C27_Witness ==
    /\ line.kind = "handled"
    /\ line.method = "tools/call"
    /\ http.api = 1
    /\ http.answer.ContentEncoding = "gzip"
    /\ http.answer.coded = "gzip"
    /\ http.answer.StatusCode = StatusOK
    /\ http.answer.payload = "odata"
    /\ ~out.msg.isError
    /\ out.msg.detail = APIResponseOf("odata")

\* The tools handleToolsCall knows by name.
ToolNames == {"reso_query", "reso_help"}

\* C28: on an initialized server a tools/call whose params do not decode into
\* a name with arguments is answered with error -32602, and one whose name
\* is none of the server's tools with error -32601; both answers carry the
\* request's id, no tool is run, no HTTP exchange is made and the session is
\* left as it was.
C28_BadCallsRefused ==
    [][(/\ line.kind = "msg"
        /\ line.method = "tools/call"
        /\ line'.kind = "handled"
        /\ resoTool = "set"
        /\ line.params.shape = "bad" \/ line.params.name \notin ToolNames)
         => /\ out'.written
            /\ out'.msg.kind = "error"
            /\ out'.msg.code = IF line.params.shape = "bad" THEN -32602 ELSE -32601
            /\ out'.msg.id = line.id
            /\ http' = NoHttp
            /\ UNCHANGED session]_vars

\* An initialized server has refused a call with undecodable params that
\* carried an id.
C28_Witness ==
    /\ line.kind = "handled"
    /\ line.method = "tools/call"
    /\ line.params.shape = "bad"
    /\ line.id # NoId
    /\ resoTool = "set"
    /\ out.msg.code = -32602
    /\ out.msg.id = line.id

\* What Execute puts first in the text of a result that reports a failure.
ToolFailures == {"Configuration error", "Error parsing arguments", "Error executing query"}

\* C29: no failure of the query tool is fatal. A reso_query call handled by
\* an initialized server is answered with a result, which has isError set
\* when the tool failed on the configuration, the arguments, the token or the
\* transport; the tools stay in place; the loop then goes back to the scanner
\* and takes the next line; and the loop stops only on a line the scanner
\* fails on.
C29_ToolFailureNotFatal ==
    /\ [][/\ (QueryCallHandled /\ resoTool = "set")
               => /\ out'.written
                  /\ out'.msg.kind = "result"
                  /\ out'.msg.tag \in ToolFailures <=> out'.msg.isError
                  /\ out'.msg.isError => out'.msg.detail # ""
                  /\ UNCHANGED <<config, oauth, apiClient, resoTool, helpTool,
                                 initHandled>>
          /\ line'.kind = "stopped" => line.kind = "stopped" \/ line.long]_vars
    /\ [](line.kind = "handled" => ENABLED Continue)
    /\ [](line.kind = "none" => ENABLED Scan(Lines))

\* A reso_query call has failed in transport and was answered with an error
\* result; the server is still initialized and the loop can go on.
C29_Witness ==
    /\ line.kind = "handled"
    /\ line.method = "tools/call"
    /\ line.params.name = "reso_query"
    /\ out.msg.kind = "result"
    /\ out.msg.isError
    /\ out.msg.detail = "failed to make request"
    /\ resoTool = "set"
    /\ ENABLED Continue

\* A line the scanner has delivered and the loop has not dealt with yet.
Unhandled(l) == l.kind \in {"msg", "blank", "garbage"}

\* C30: the loop is sequential. Nothing is written before a line is read or
\* while one waits to be handled; a response is written only in the step
\* that handles a message, one response at most, and it answers that
\* message; the scanner is asked for the next line only after that.
C30_LoopSequential ==
    /\ [](out.written => /\ line.kind = "handled"
                         /\ out.msg.JSONRPC = "2.0"
                         /\ out.msg.id = ID(line))
    /\ [][/\ out' # out
               => \/ line.kind = "msg" /\ line' = Handled(line)
                  \/ line.kind = "handled" /\ line' = NoLine /\ out' = NoOut
          /\ (line' # line /\ Unhandled(line'))
               => line.kind = "none" /\ out = NoOut /\ out' = NoOut]_vars

\* The response to a resources/list request has been written and the next
\* line has not been read.
C30_Witness ==
    /\ line.kind = "handled"
    /\ line.method = "resources/list"
    /\ out.written
    /\ out.msg.kind = "result"
    /\ out.msg.tag = "ListResourcesResult"

\* C31 as stated: handling an initialize request makes no HTTP exchange, with
\* the auth endpoint or with the data endpoint; exchanges are made only in
\* the step that handles a tools/call.
C31_InitializeMakesNoExchange ==
    [][/\ (line.kind = "msg" /\ line.method = "initialize" /\ line'.kind = "handled")
            => http' = NoHttp
       /\ (http'.auth + http'.api > 0 /\ http' # http)
            => line.kind = "msg" /\ line.method = "tools/call"]_vars

\* C32: the server only moves from uninitialized to initialized. Once an
\* initialize request has been handled this stays so and both tools stay in
\* place, whatever lines follow, and every tools/list request handled from
\* then on is answered with the list of tools.
C32_InitializedForGood ==
    /\ [](initHandled => resoTool = "set" /\ helpTool # "nil")
    /\ [][/\ initHandled => initHandled'
          /\ (line.kind = "msg" /\ line.method = "tools/list" /\ line'.kind = "handled"
                /\ initHandled)
               => out' = [written |-> TRUE,
                          msg |-> ResultMessage(line.id, "ListToolsResult")]]_vars

\* A tools/list request has been answered with the list by an initialized
\* server whose help tool found no metadata.
C32_Witness ==
    /\ line.kind = "handled"
    /\ line.method = "tools/list"
    /\ initHandled
    /\ helpTool = "fallback"
    /\ out.written
    /\ out.msg.tag = "ListToolsResult"

\* C33: with concurrent callers and every exchange ending, every GetToken
\* call that has begun returns; a caller that has returned holds neither
\* lock, so that no lock is held when no call is in progress; and a caller
\* about to call is not kept out of the shared lock for ever.
C33_EveryCallReturns ==
    /\ \A p \in Callers : pc[p] # "idle" ~> (pc[p] = "idle" /\ result[p] # NoResult)
    /\ [](\A p \in Callers : pc[p] = "idle" => p \notin readers /\ writer # p)
    /\ []((\A p \in Callers : pc[p] = "idle") => readers = {} /\ writer = 0)
    /\ \A p \in Callers :
          pc[p] = "idle" ~> (pc[p] # "idle"
                               \/ CanRLock(writer, {q \in Callers : pc[q] = "wlock"}))

\* Two calls that both sent an exchange have returned, one with an error,
\* and no lock is held.
C33_Witness ==
    /\ \A p \in Callers : pc[p] = "idle" /\ exch[p] = 1
    /\ \E p \in Callers : result[p].kind = "err"
    /\ \E p \in Callers : result[p].kind = "ok"
    /\ readers = {}
    /\ writer = 0

\* The cached token was stored, expiry included, from an answer whose
\* expires_in was at most the buffer (0 stands for an answer without the
\* field).
ShortLived == ~token.isNil /\ writer = 0 /\ token.ExpiresIn <= TokenBuffer

\* C34: a token with an expires_in of at most 60 seconds is stored with an
\* expiry that is not in the future and is never served from the cache:
\* while it is the cached token, every call that returns a token has made
\* an auth exchange of its own.
C34_ShortTokenNeverServed ==
    /\ [](ShortLived => tokenExpiry <= obtained /\ obtained <= now
                          /\ ~CacheValid(token, tokenExpiry, now))
    /\ [][\A p \in Callers :
            (ShortLived /\ pc[p] # "idle" /\ pc'[p] = "idle" /\ result'[p].kind = "ok")
              => exch'[p] = 1]_vars

\* A call has returned a token from an exchange of its own while a token
\* with expires_in = 60 from an earlier call was in the cache.
C34_Witness ==
    /\ ShortLived
    /\ token.ExpiresIn = TokenBuffer
    /\ \E p, q \in Callers :
          /\ p # q
          /\ pc[p] = "idle" /\ result[p].kind = "ok" /\ exch[p] = 1
          /\ pc[q] = "idle" /\ result[q].kind = "ok" /\ exch[q] = 1
          /\ result[p].token # result[q].token

\* C35 as stated: when the flags or the environment gave a client id and a
\* client secret, the configuration has both after an initialize request,
\* whatever its params carry, empty or non-string values included.
C35_StartupCredentialsKept ==
    [][(InitializeStep /\ \A k \in Keys : EnvSettingsValue(env, k) # "")
         => /\ config'.ClientID # ""
            /\ config'.ClientSecret # ""
            /\ ValidateCredentials(config')]_vars

\* The call made no exchange and left the token cache alone.
NothingSent == http' = NoHttp /\ UNCHANGED <<token, tokenExpiry>>

\* C36: a reso_query call on an initialized server is decided by the first
\* check that fails, in this order: both credentials held, the entity given,
\* the entity in the catalog, the skip within the entity's ceiling, the
\* token, the data request. No exchange is made for a call that fails one of
\* the first four, and the data request is sent only with a token in hand.
C36_ChecksInOrder ==
    [][(QueryCallHandled /\ resoTool = "set")
         => LET a == line.params.args
                r == out'.msg
            IN  IF config.ClientID = "" \/ config.ClientSecret = ""
                THEN r.isError /\ r.tag = "Configuration error" /\ NothingSent
                ELSE IF a.entity.t # "string"
                THEN /\ r.isError /\ r.tag = "Error parsing arguments"
                     /\ r.detail = "entity is required"
                     /\ NothingSent
                ELSE IF a.entity.s \notin SupportedEntities
                THEN /\ r.isError
                     /\ r.detail = "unsupported entity: " \o a.entity.s
                     /\ NothingSent
                ELSE IF a.skip.t = "number" /\ a.skip.n.hi = 0
                          /\ a.skip.n.lo > Ceiling(a.entity.s)
                THEN /\ r.isError
                     /\ r.detail = "skip value " \o ToString(a.skip.n.lo)
                                     \o " exceeds limit " \o ToString(Ceiling(a.entity.s))
                                     \o " for entity " \o a.entity.s
                     /\ NothingSent
                ELSE /\ r.tag # "Configuration error"
                     /\ r.tag # "Error parsing arguments"
                     /\ http'.auth = 0 <=> CacheValid(token, tokenExpiry, now)
                                             \/ ~authURLOk
                     /\ r.detail = "failed to get access token"
                          => http'.api = 0 /\ UNCHANGED <<token, tokenExpiry>>
                     /\ (http'.auth = 0 /\ ~CacheValid(token, tokenExpiry, now))
                          => r.detail = "failed to get access token"
                     /\ http'.api = 1
                          => /\ http'.request.entity = a.entity.s
                             /\ http'.auth = 1 \/ CacheValid(token, tokenExpiry, now)]_vars

\* A call with neither credentials nor an entity, and a skip over every
\* ceiling, has been answered with the configuration error.
C36_Witness ==
    /\ line.kind = "handled"
    /\ line.method = "tools/call"
    /\ line.params.name = "reso_query"
    /\ line.params.args.entity = Absent
    /\ line.params.args.skip # NoNumber
    /\ initHandled
    /\ config.ClientID = ""
    /\ out.msg.tag = "Configuration error"
    /\ http = NoHttp

\* C37: of the three shapes of the initialize params, the key given by the
\* params themselves wins over the one in their settings object, which wins
\* over the one in the settings object of capabilities; a key given in one
\* shape only is taken from it. The value that wins is loaded when it is a
\* non-empty string; when it is not, nothing is loaded for the key, and the
\* value of a lower shape is not used in its place.
C37_ShapePrecedence ==
    [][(InitializeStep /\ line.params.shape = "map")
         => \A k \in Keys :
              LET b == line.params.bare[k]
                  d == line.params.direct.kv[k]
                  c == line.params.cap.kv[k]
                  All == {b, d, c} \ {Absent}
                  w == IF b # Absent THEN b ELSE IF d # Absent THEN d ELSE c
              IN  All # {}
                    => HeldBy(config')[k] = (IF NonEmptyString(w) THEN w.s
                                              ELSE HeldBy(config)[k])]_vars

\* An initialize request giving the client id in all three shapes has been
\* handled and the configuration holds the one of the params themselves.
C37_Witness ==
    /\ line.kind = "handled"
    /\ line.method = "initialize"
    /\ line.params.shape = "map"
    /\ line.params.bare["client_id"] = Str(ValueAt("params", "client_id"))
    /\ line.params.direct.kv["client_id"] = Str(ValueAt("settings", "client_id"))
    /\ line.params.cap.kv["client_id"] = Str(ValueAt("capabilities", "client_id"))
    /\ config.ClientID = ValueAt("params", "client_id")

\* C38 as stated: a 200 answer whose body is compressed in an encoding the
\* request advertised, and declared so in Content-Encoding, gives the result
\* of the same body sent uncompressed.
C38_AdvertisedEncodingsDecoded ==
    [][\A a \in ApiOutcomes :
         (/\ QueryCallHandled
          /\ http'.api = 1
          /\ a = http'.answer
          /\ a.fate = "answered"
          /\ a.StatusCode = StatusOK
          /\ a.ContentEncoding \in AcceptEncoding
          /\ a.coded = a.ContentEncoding)
           => /\ out'.msg.isError = (ApiError(Uncompressed(a)) # "")
              /\ JSONObject(a.payload)
                   => ~out'.msg.isError /\ out'.msg.detail = APIResponseOf(a.payload)]_vars
====
